---- MODULE Spec2Model ----
(***************************************************************************)
(* Footprint deduplication engine of the interagency tracking system.      *)
(*                                                                         *)
(* Several state machines share this module, each with its own variables  *)
(* and its own specification; the first three are                          *)
(*   SpecFootprint  the per-year footprint loop body, from the dissolved   *)
(*                  treatments on, for the recursive decomposer            *)
(*                  (process/footprint_nop.py) and for the planar          *)
(*                  subdivision path (process/footprint.py);               *)
(*   SpecJoin       utils/concurrent_join.py, one call of concurrent_join  *)
(*                  with its worker pool and its files under /tmp;         *)
(*   SpecDedup      remove_duplicates on rings given by their vertices.    *)
(* The others (decomposition, report, buffering, years, cache, hash,       *)
(* counts, category, dissolve, normalization, interaction, validity,       *)
(* enrichment, recursion, concurrent calls) are introduced where they are  *)
(* defined.                                                                *)
(*                                                                         *)
(* Geometry of the footprint machine is one-dimensional: the ground is a   *)
(* row of unit cells 1..NCells, a (multi)polygon is a non-empty set of     *)
(* cells, its parts are its maximal runs of consecutive cells, its area is *)
(* its number of cells.  Overlay intersection and difference are set       *)
(* intersection and difference; lower-dimensional overlay artifacts (two   *)
(* parts that only touch) are the empty set, which the code filters out.   *)
(***************************************************************************)
EXTENDS Integers, Sequences, FiniteSets, TLC

\* ------------------------------------------------------------------ bounds
\* Number of unit cells of ground.
NCells == 3

\* Number of dissolved treatments of a year that hold a null in one of the
\* enrich columns (COUNTY, IN_WUI, ...).
MaxNullRows == 1

\* The treatment identifiers (TRMTID_USER) of a year, by sort rank, and the
\* reported quantities in acres (the 5 and 12 acres of the containment scenario).
TreatmentIds == {1, 2, 3}
Quantities == {5, 12}

VARIABLES
    \* footprint machine
    strategy,          \* "nop" (footprint_nop.py) or "p2" (footprint.py)
    fpc,               \* position in the year's loop body
    dissolved_cur_y,   \* the year's dissolved treatments, sorted by TRMTID_USER
    enrich_null,       \* footprint.py: the treatments with a null in an enrich column
    GDF_CUR,           \* footprint_nop.py global
    INTERSECTION_LIST, \* footprint_nop.py global
    results,           \* pool.map results, by task index
    completed,         \* task indexes whose get_NOP_mp call has returned
    original,          \* temp layer 'original'+y
    meatball,          \* temp layer 'meatball'+y
    spaghetti,         \* temp layer 'Spaghetti_FeatureToPolygon'+y
    footprint,         \* the layer saved for the year
    run,               \* 1, or 2 when the resolver is run again on the same input
    first_footprint    \* the cells, with their treatment, the first run saved

fvars == <<strategy, fpc, dissolved_cur_y, enrich_null, GDF_CUR, INTERSECTION_LIST, results,
           completed, original, meatball, spaghetti, footprint, run, first_footprint>>

VARIABLES
    \* concurrent_join machine
    in_polygons,        \* the rows handed to concurrent_join
    in_polygons_chunks, \* split_gdf's result
    jpc,                \* the parent's position in concurrent_join
    task,               \* per chunk: the state of its future
    disk,               \* the /tmp/chunk_result_<n>.gpkg files that exist, by n
    jk,                 \* the index of the parent's current loop
    jresults,           \* results (line 66)
    result_files,       \* result_files (line 75)
    combined_result,    \* None, or <<rows>>
    exc,                \* an exception has left the with-block
    returned,           \* what concurrent_join returned: None, or <<rows>>
    submits,            \* per chunk: how often it was submitted to the pool
    first_outcome,      \* per chunk: what the first future.result(timeout) gave
    result_calls,       \* per chunk: how often the parent took future.result
    written             \* the files worker tasks wrote, at any time

jvars == <<in_polygons, in_polygons_chunks, jpc, task, disk, jk, jresults,
           result_files, combined_result, exc, returned, submits, first_outcome,
           result_calls, written>>

VARIABLES
    \* remove_duplicates machine
    gdf_in,             \* the collection handed to remove_duplicates
    unique_gdf,         \* the collection it returns
    dpc

dvars == <<gdf_in, unique_gdf, dpc>>

VARIABLES
    \* get_NOP_recur called on its own
    target,             \* gdf1: the target's geometry
    neighbors,          \* gdf2: the list of neighbor geometries
    nop,                \* the flattened result
    npc

nvars == <<target, neighbors, nop, npc>>

VARIABLES
    \* get_footprint_report machine
    enriched_points,    \* the three input collections
    enriched_lines,
    enriched_polygons,
    buffer_pts,         \* the three normalized collections
    buffer_lines,
    processed_polys,
    rpc,                \* the position in get_footprint_report
    halted_at,          \* the check at which exit() was called
    generated           \* get_footprint has been called

rvars == <<enriched_points, enriched_lines, enriched_polygons, buffer_pts, buffer_lines,
           processed_polys, rpc, halted_at, generated>>

VARIABLES
    \* quantity buffering of one record
    bmodule,            \* the module whose update_pt / update_ln is applied
    btype,              \* "point" or "line"
    ACTIVITY_QUANTITY,  \* the record's quantity, in acres
    line_length,        \* the line's length, in centimetres (0 for a point)
    buffer_area,        \* the area of the buffered geometry, in square centimetres
    bpc

bvars == <<bmodule, btype, ACTIVITY_QUANTITY, line_length, buffer_area, bpc>>

VARIABLES
    \* footprint_report.get_footprint machine
    input_gdf,          \* the combined features of all years
    year,               \* the loop variable
    caltrans_join,      \* the pieces of the year being processed, with their ownership
    footprint_lst,      \* the per-year outputs so far
    footprint_out,      \* the returned collection
    gpc

gvars == <<input_gdf, year, caltrans_join, footprint_lst, footprint_out, gpc>>

VARIABLES
    \* footprint_nop.get_footprint year loop
    year_layers,        \* per year, the dissolved treatments of the year
    cur_y,              \* the loop variable y
    saved_footprints,   \* per year, the saved footprint layer: None, or <<rows>>
    ypc

yvars == <<year_layers, cur_y, saved_footprints, ypc>>

VARIABLES
    \* the parquet cache of enrich_polygons and footprint_report.get_footprint
    cache_files,        \* per cache path: "absent", "valid" or "corrupt"
    lookups,            \* the cache paths still to look up, in program order
    loaded,             \* the cache paths whose data the run holds
    cpc

cvars == <<cache_files, lookups, loaded, cpc>>

VARIABLES
    \* gdf_utils.hash_geodataframe applied to two feature collections
    gdf_a, gdf_b,       \* the collections
    hash_a, hash_b,     \* their keys
    hpc

hvars == <<gdf_a, gdf_b, hash_a, hash_b, hpc>>

VARIABLES
    \* append: counts_to_mas(standardize_domains(gdf)), one record of gdf
    activity,           \* the record
    mpc

mvars == <<activity, mpc>>

VARIABLES
    \* crosswalk: standardize_domains(categorize_activity(df)), one record of df
    crosswalk_row,      \* the record
    kpc

kvars == <<crosswalk_row, kpc>>

VARIABLES
    \* the dissolve by treatment identifier of one year, in the three variants
    variant,            \* "nop", "p2" or "report"
    year_features,      \* the normalized features of the year, in stored order
    dissolved,          \* the dissolved treatments
    spc

svars == <<variant, year_features, dissolved, spc>>

VARIABLES
    \* update_pt and update_ln, the normalizer ahead of the deduplication pass
    norm_module,        \* "footprint_nop" or "footprint_report"
    norm_kind,          \* "point" or "line"
    norm_input,         \* enriched_points or enriched_lines
    norm_output,        \* the collection returned
    zpc

zvars == <<norm_module, norm_kind, norm_input, norm_output, zpc>>

VARIABLES
    \* get_interaction_list applied to a collection indexed 0..n-1
    inter_gdf,          \* the collection
    interaction_list,   \* the list returned
    ipc

ivars == <<inter_gdf, interaction_list, ipc>>

VARIABLES
    \* validity of the geometries on the way to the decomposition step of a year
    valid_variant,      \* "nop", "p2" or "report"
    year_validity,      \* per treatment of the year: "valid" or "invalid"
    handed,             \* the validity of the geometries handed to the decomposition
    vpc

vvars == <<valid_variant, year_validity, handed, vpc>>

VARIABLES
    \* enrich_polygons: the chunked vegetation enrichment and its cache, two runs
    ref_source,         \* the version of Broad_Vegetation_Types at a_reference_gdb_path
    veg_cache,          \* cache/Broad_Vegetation_Types.parquet: 0 (absent) or the version stored
    chunk_cache,        \* cache/{hash}.parquet, per hash
    enrich_chunks,      \* the chunks of this run, by their content
    veg_layer,          \* the layer this run loaded: 0 before the load
    enriched_list,      \* the enriched chunks of this run so far
    summarized,         \* per chunk of this run, the number of summarize_within calls
    run_no,             \* 1 or 2
    first_run,          \* the chunks and the reference version of the first run
    epc

evars == <<ref_source, veg_cache, chunk_cache, enrich_chunks, veg_layer, enriched_list, summarized,
           run_no, first_run, epc>>

VARIABLES
    recur_target,     \* the feature get_NOP_mp decomposes
    recur_neighbors,  \* INTERSECTION_LIST[i], the geometries it interacts with
    call_stack,       \* live calls of get_NOP_recur, outermost first
    max_depth,        \* the deepest nesting of calls seen so far
    tpc               \* "called", "recursing", "returned"

tvars == <<recur_target, recur_neighbors, call_stack, max_depth, tpc>>

VARIABLES
    \* two concurrent_join calls sharing /tmp
    call_chunks,      \* per call: the number of chunks
    call_state,       \* per call: "idle", "collecting", "combining", "finally", "done"
    call_task,        \* per call and chunk index: the state of its future
    shared_tmp,       \* the /tmp/chunk_result_<n>.gpkg files, each with the call that wrote it
    call_k,           \* per call: the position in result_files
    call_read         \* per call: the files it has read, in order

pvars == <<call_chunks, call_state, call_task, shared_tmp, call_k, call_read>>

vars == <<fvars, jvars, dvars, nvars, rvars, bvars, gvars, yvars, cvars, hvars, mvars, kvars, svars, zvars, ivars, vvars, evars, tvars, pvars>>

\* What each machine leaves alone.
nonfvars == <<jvars, dvars, nvars, rvars, bvars, gvars, yvars, cvars, hvars, mvars, kvars, svars, zvars, ivars, vvars, evars, tvars, pvars>>
nonjvars == <<fvars, dvars, nvars, rvars, bvars, gvars, yvars, cvars, hvars, mvars, kvars, svars, zvars, ivars, vvars, evars, tvars, pvars>>
nondvars == <<fvars, jvars, nvars, rvars, bvars, gvars, yvars, cvars, hvars, mvars, kvars, svars, zvars, ivars, vvars, evars, tvars, pvars>>
nonnvars == <<fvars, jvars, dvars, rvars, bvars, gvars, yvars, cvars, hvars, mvars, kvars, svars, zvars, ivars, vvars, evars, tvars, pvars>>
nonrvars == <<fvars, jvars, dvars, nvars, bvars, gvars, yvars, cvars, hvars, mvars, kvars, svars, zvars, ivars, vvars, evars, tvars, pvars>>
nonbvars == <<fvars, jvars, dvars, nvars, rvars, gvars, yvars, cvars, hvars, mvars, kvars, svars, zvars, ivars, vvars, evars, tvars, pvars>>
nongvars == <<fvars, jvars, dvars, nvars, rvars, bvars, yvars, cvars, hvars, mvars, kvars, svars, zvars, ivars, vvars, evars, tvars, pvars>>
nonyvars == <<fvars, jvars, dvars, nvars, rvars, bvars, gvars, cvars, hvars, mvars, kvars, svars, zvars, ivars, vvars, evars, tvars, pvars>>
noncvars == <<fvars, jvars, dvars, nvars, rvars, bvars, gvars, yvars, hvars, mvars, kvars, svars, zvars, ivars, vvars, evars, tvars, pvars>>
nonhvars == <<fvars, jvars, dvars, nvars, rvars, bvars, gvars, yvars, cvars, mvars, kvars, svars, zvars, ivars, vvars, evars, tvars, pvars>>
nonmvars == <<fvars, jvars, dvars, nvars, rvars, bvars, gvars, yvars, cvars, hvars, kvars, svars, zvars, ivars, vvars, evars, tvars, pvars>>
nonkvars == <<fvars, jvars, dvars, nvars, rvars, bvars, gvars, yvars, cvars, hvars, mvars, svars, zvars, ivars, vvars, evars, tvars, pvars>>
nonsvars == <<fvars, jvars, dvars, nvars, rvars, bvars, gvars, yvars, cvars, hvars, mvars, kvars, zvars, ivars, vvars, evars, tvars, pvars>>
nonzvars == <<fvars, jvars, dvars, nvars, rvars, bvars, gvars, yvars, cvars, hvars, mvars, kvars, svars, ivars, vvars, evars, tvars, pvars>>
nonivars == <<fvars, jvars, dvars, nvars, rvars, bvars, gvars, yvars, cvars, hvars, mvars, kvars, svars, zvars, vvars, evars, tvars, pvars>>
nonvvars == <<fvars, jvars, dvars, nvars, rvars, bvars, gvars, yvars, cvars, hvars, mvars, kvars, svars, zvars, ivars, evars, tvars, pvars>>
nonevars == <<fvars, jvars, dvars, nvars, rvars, bvars, gvars, yvars, cvars, hvars, mvars, kvars, svars, zvars, ivars, vvars, tvars, pvars>>
nontvars == <<fvars, jvars, dvars, nvars, rvars, bvars, gvars, yvars, cvars, hvars, mvars, kvars, svars, zvars, ivars, vvars, evars, pvars>>
nonpvars == <<fvars, jvars, dvars, nvars, rvars, bvars, gvars, yvars, cvars, hvars, mvars, kvars, svars, zvars, ivars, vvars, evars, tvars>>

\* ------------------------------------------------------- sequence helpers
Range(s) == {s[k] : k \in DOMAIN s}

RemoveAt(s, i) == [k \in 1..(Len(s) - 1) |-> IF k < i THEN s[k] ELSE s[k + 1]]

RECURSIVE FlatConcat(_)
FlatConcat(ss) == IF ss = <<>> THEN <<>> ELSE Head(ss) \o FlatConcat(Tail(ss))

RECURSIVE SetToSortedSeq(_)
SetToSortedSeq(S) ==
    IF S = {} THEN <<>>
    ELSE LET m == CHOOSE x \in S : \A y \in S : x <= y
         IN <<m>> \o SetToSortedSeq(S \ {m})

\* pandas Series.duplicated(keep='first'): TRUE at k when an earlier entry has the
\* same key.
Duplicated(keys) == [k \in DOMAIN keys |-> \E j \in 1..(k - 1) : keys[j] = keys[k]]

\* The rows of s whose mask entry is TRUE, in order.
RECURSIVE Mask(_, _)
Mask(s, m) ==
    IF s = <<>> THEN <<>>
    ELSE (IF Head(m) THEN <<Head(s)>> ELSE <<>>) \o Mask(Tail(s), Tail(m))

\* pandas drop_duplicates(keep='last') on a key: the last row of each key, in order.
DropDuplicatesKeepLast(s, keys) ==
    Mask(s, [k \in DOMAIN s |-> ~ \E j \in (k + 1)..Len(s) : keys[j] = keys[k]])

\* ------------------------------------------------------------- geometry
Cells == 1..NCells
Geoms == (SUBSET Cells) \ {{}}

Area(g) == Cardinality(g)

\* The parts of a (multi)polygon: its maximal runs <<a, b>> of consecutive cells.
Runs(g) == {r \in Cells \X Cells :
               /\ r[1] <= r[2]
               /\ (r[1]..r[2]) \subseteq g
               /\ (r[1] - 1) \notin g
               /\ (r[2] + 1) \notin g}

\* Two geometries intersect when they share a cell or a cell boundary (touch).
Intersects(g, h) == \E c \in g, d \in h : c - d \in {-1, 0, 1}

\* shapely representative_point: the midpoint of the widest interior interval of
\* the scan line.  Positions are doubled: cell c spans [2c-2, 2c].
RepresentativePoint(g) ==
    LET w == CHOOSE r \in Runs(g) : \A s \in Runs(g) :
                 \/ s[2] - s[1] < r[2] - r[1]
                 \/ (s[2] - s[1] = r[2] - r[1] /\ r[1] <= s[1])
    IN w[1] - 1 + w[2]

\* A point at doubled position p lies in (or on the boundary of) the geometry.
PointIntersects(p, g) == \E c \in g : 2 * c - 2 <= p /\ p <= 2 * c

UnionAll(rows) == UNION {rows[k].geometry : k \in DOMAIN rows}

\* The footprint cells of a saved layer: each geometry with its treatment.
FootprintCells(layer) ==
    {[TRMTID_USER |-> layer[k].TRMTID_USER, geometry |-> layer[k].geometry] :
        k \in DOMAIN layer}

\* ------------------------------------------------ recursive NOP decomposer
\* get_NOP_recur followed by flatten: gdf1 is the target's geometry, gdf2 the list
\* of neighbor geometries; the result is the flattened list of leaf geometries.
RECURSIVE get_NOP_recur_no_difference(_, _)
get_NOP_recur_no_difference(gdf1, gdf2) ==
    LET intersection == SelectSeq([k \in DOMAIN gdf2 |-> gdf1 \cap gdf2[k]],
                                  LAMBDA g : g # {})
        temp_nop == intersection
    IN IF Len(temp_nop) <= 1
       THEN <<gdf1>>
       ELSE FlatConcat([i \in DOMAIN temp_nop |->
                           get_NOP_recur_no_difference(temp_nop[i], RemoveAt(temp_nop, i))])

RECURSIVE get_NOP_recur(_, _)
get_NOP_recur(gdf1, gdf2) ==
    LET intersection == SelectSeq([k \in DOMAIN gdf2 |-> gdf1 \cap gdf2[k]],
                                  LAMBDA g : g # {})
        rest == gdf1 \ UNION Range(gdf2)
        difference == IF rest # {} THEN <<rest>> ELSE <<>>
        temp_nop == intersection \o difference
    IN IF Len(temp_nop) <= 1
       THEN <<gdf1>>
       ELSE FlatConcat([i \in DOMAIN temp_nop |->
                           get_NOP_recur(temp_nop[i], RemoveAt(temp_nop, i))])

\* get_interaction_list: per feature, the positions of the other features whose
\* geometry intersects it.
\* row.geometry.bounds: the extent of the geometry, from the left edge of its
\* first cell to the right edge of its last.
Bounds(g) ==
    <<(CHOOSE c \in g : \A d \in g : c <= d) - 1, CHOOSE c \in g : \A d \in g : d <= c>>

\* sindex.intersection(bounds): the features whose bounding box meets the box.
SindexIntersection(gdf, bounds) ==
    {i \in DOMAIN gdf : Bounds(gdf[i].geometry)[1] <= bounds[2]
                         /\ bounds[1] <= Bounds(gdf[i].geometry)[2]}

get_interaction_list_bounds_only(gdf) ==
    [idx \in DOMAIN gdf |->
        SetToSortedSeq({i \in SindexIntersection(gdf, Bounds(gdf[idx].geometry)) : i # idx})]

\* lines 204-233: the possible neighbors by bounding box, without the feature
\* itself, then those whose geometry intersects.
get_interaction_list(gdf) ==
    [idx \in DOMAIN gdf |->
        SetToSortedSeq({i \in SindexIntersection(gdf, Bounds(gdf[idx].geometry)) :
                           i # idx /\ Intersects(gdf[idx].geometry, gdf[i].geometry)})]

CellOf(row, g) ==
    [TRMTID_USER |-> row.TRMTID_USER, ACTIVITY_QUANTITY |-> row.ACTIVITY_QUANTITY,
     geometry |-> g]

get_NOP_mp_skip_completed(i) ==
    LET todo == SelectSeq(INTERSECTION_LIST[i], LAMBDA n : n \notin completed)
    IN IF Len(todo) = 0
       THEN <<GDF_CUR[i]>>
       ELSE LET nbrs == [k \in DOMAIN todo |-> GDF_CUR[todo[k]].geometry]
                nop_cur == get_NOP_recur(GDF_CUR[i].geometry, nbrs)
                unique == Mask(nop_cur, [k \in DOMAIN nop_cur |-> ~ Duplicated(nop_cur)[k]])
                kept == SelectSeq(unique, LAMBDA g : Area(g) # 0)
            IN [k \in DOMAIN kept |-> CellOf(GDF_CUR[i], kept[k])]

\* get_NOP_mp(i): the pieces of feature i, each carrying feature i's attributes.
get_NOP_mp(i) ==
    IF Len(INTERSECTION_LIST[i]) = 0
    THEN <<GDF_CUR[i]>>
    ELSE LET nbrs == [k \in DOMAIN INTERSECTION_LIST[i] |->
                         GDF_CUR[INTERSECTION_LIST[i][k]].geometry]
             nop_cur == get_NOP_recur(GDF_CUR[i].geometry, nbrs)
             unique == Mask(nop_cur, [k \in DOMAIN nop_cur |-> ~ Duplicated(nop_cur)[k]])
             kept == SelectSeq(unique, LAMBDA g : Area(g) # 0)
         IN [k \in DOMAIN kept |-> CellOf(GDF_CUR[i], kept[k])]

\* ------------------------------------------------ planar subdivision path
\* footprint.py remove_duplicates on the dissolved layer: geometries are sets of
\* cells here, so the normalized form of a geometry is the set itself.
remove_duplicates_layer(gdf) ==
    LET normalized_wkb == [k \in DOMAIN gdf |-> gdf[k].geometry]
    IN Mask(gdf, [k \in DOMAIN gdf |-> ~ Duplicated(normalized_wkb)[k]])

\* arcpy FeatureToPolygon on the exploded parts: the boundaries of all parts cut
\* the row into minimal faces; an enclosed gap no part covers is a face too.
FeatureToPolygon(parts) ==
    LET cuts == UNION {{r[1] - 1, r[2]} : r \in parts}
        faces == {<<x + 1, y>> : x \in cuts, y \in cuts}
        minimal == {f \in faces : f[1] <= f[2] /\ \A z \in cuts : ~(f[1] - 1 < z /\ z < f[2])}
        starts == SetToSortedSeq({f[1] : f \in minimal})
    IN [k \in DOMAIN starts |->
           LET f == CHOOSE f \in minimal : f[1] = starts[k] IN f[1]..f[2]]

Explode(gdf) == UNION {Runs(gdf[k].geometry) : k \in DOMAIN gdf}

\* spaghetti.sjoin(dissolved_point, how='left', predicate='intersects'): one row
\* per face and anchor point in it; a face with no anchor gives one row with
\* right = 0 (NaN in every right-hand column).
SjoinLeft(faces, points) ==
    FlatConcat([f \in DOMAIN faces |->
        LET hit == SelectSeq([p \in DOMAIN points |-> p],
                             LAMBDA p : PointIntersects(points[p].geometry, faces[f]))
        IN IF hit = <<>>
           THEN <<[face |-> f, right |-> 0]>>
           ELSE [k \in DOMAIN hit |-> [face |-> f, right |-> hit[k]]]])

\* dropna(): a row with a null in any column goes: a face with no anchor, and a
\* row whose anchor carries a null enrich column.
Dropna(rows, points, nulls) ==
    SelectSeq(rows, LAMBDA r : r.right # 0 /\ points[r.right].TRMTID_USER \notin nulls)

\* Every arrangement of the row positions I in non-decreasing order of qs.
RECURSIVE ArgSorts(_, _)
ArgSorts(I, qs) ==
    IF I = {} THEN {<<>>}
    ELSE LET least == {i \in I : \A j \in I : qs[i] <= qs[j]}
         IN UNION {{<<i>> \o t : t \in ArgSorts(I \ {i}, qs)} : i \in least}

\* sort_values('ACTIVITY_QUANTITY') with the default, unstable, sort: every
\* arrangement of the rows in non-decreasing quantity (qs: the rows' quantities).
SortValues(rows, qs) ==
    {[k \in DOMAIN rows |-> rows[p[k]]] : p \in ArgSorts(DOMAIN rows, qs)}

DedupKeyFace(row, points) == row.face

\* The key drop_duplicates uses in get_footprint_p2.
DedupKey(row, points) == points[row.right].TRMTID_USER

\* get_footprint_p2 for one year, given one outcome `sorted` of the sort.
Footprint_p2(sorted, points, orig) ==
    LET footprint_temp == DropDuplicatesKeepLast(sorted,
                              [k \in DOMAIN sorted |-> DedupKey(sorted[k], points)])
    IN [k \in DOMAIN footprint_temp |->
           LET id == points[footprint_temp[k].right].TRMTID_USER
           IN CHOOSE row \in Range(orig) : row.TRMTID_USER = id]

\* ----------------------------------------------------- footprint machine
\* The dissolved layer: at most one row per treatment identifier, sorted by it.
DissolvedLayers ==
    UNION {{[k \in DOMAIN ids |->
                [TRMTID_USER |-> ids[k], ACTIVITY_QUANTITY |-> a[k][1],
                 geometry |-> a[k][2]]] :
               a \in [DOMAIN ids -> Quantities \X Geoms]} :
           ids \in {SetToSortedSeq(S) : S \in SUBSET TreatmentIds}}

FootprintIdle ==
    /\ strategy = "none" /\ fpc = "idle" /\ dissolved_cur_y = <<>> /\ enrich_null = {}
    /\ GDF_CUR = <<>> /\ INTERSECTION_LIST = <<>> /\ results = <<>> /\ completed = {}
    /\ original = <<>> /\ meatball = <<>> /\ spaghetti = <<>> /\ footprint = <<>>
    /\ run = 1 /\ first_footprint = {}

JoinIdle ==
    /\ in_polygons = <<>> /\ in_polygons_chunks = <<>> /\ jpc = "idle" /\ task = <<>>
    /\ disk = {} /\ jk = 0 /\ jresults = <<>> /\ result_files = <<>>
    /\ combined_result = <<>> /\ exc = FALSE /\ returned = <<>> /\ submits = <<>>
    /\ first_outcome = <<>> /\ result_calls = <<>> /\ written = {}

DedupIdle == gdf_in = <<>> /\ unique_gdf = <<>> /\ dpc = "idle"

DecomposeIdle == target = {} /\ neighbors = <<>> /\ nop = <<>> /\ npc = "idle"

ReportIdle ==
    /\ enriched_points = <<>> /\ enriched_lines = <<>> /\ enriched_polygons = <<>>
    /\ buffer_pts = <<>> /\ buffer_lines = <<>> /\ processed_polys = <<>>
    /\ rpc = "idle" /\ halted_at = "" /\ generated = FALSE

BufferIdle ==
    /\ bmodule = "" /\ btype = "" /\ ACTIVITY_QUANTITY = 0 /\ line_length = 0
    /\ buffer_area = 0 /\ bpc = "idle"

DinnerIdle ==
    /\ input_gdf = <<>> /\ year = 0 /\ caltrans_join = <<>> /\ footprint_lst = <<>>
    /\ footprint_out = <<>> /\ gpc = "idle"

YearsIdle ==
    /\ year_layers = <<>> /\ cur_y = 0 /\ saved_footprints = <<>> /\ ypc = "idle"

CacheIdle ==
    /\ cache_files = <<>> /\ lookups = <<>> /\ loaded = {} /\ cpc = "idle"

HashIdle ==
    /\ gdf_a = <<>> /\ gdf_b = <<>> /\ hash_a = <<>> /\ hash_b = <<>> /\ hpc = "idle"

CountsIdle ==
    /\ activity = <<>> /\ mpc = "idle"

CategoryIdle ==
    /\ crosswalk_row = <<>> /\ kpc = "idle"

DissolveIdle ==
    /\ variant = "none" /\ year_features = <<>> /\ dissolved = <<>> /\ spc = "idle"

NormalizeIdle ==
    /\ norm_module = "none" /\ norm_kind = "none" /\ norm_input = <<>> /\ norm_output = <<>>
    /\ zpc = "idle"

InteractionIdle ==
    /\ inter_gdf = <<>> /\ interaction_list = <<>> /\ ipc = "idle"

ValidityIdle ==
    /\ valid_variant = "none" /\ year_validity = <<>> /\ handed = <<>> /\ vpc = "idle"

EnrichIdle ==
    /\ ref_source = 0 /\ veg_cache = 0 /\ chunk_cache = <<>> /\ enrich_chunks = <<>>
    /\ veg_layer = 0 /\ enriched_list = <<>> /\ summarized = <<>> /\ run_no = 0
    /\ first_run = <<>> /\ epc = "idle"

RecurIdle ==
    /\ recur_target = {}
    /\ recur_neighbors = <<>>
    /\ call_stack = <<>>
    /\ max_depth = 0
    /\ tpc = "idle"

CallsIdle ==
    /\ call_chunks = <<>>
    /\ call_state = <<>>
    /\ call_task = <<>>
    /\ shared_tmp = {}
    /\ call_k = <<>>
    /\ call_read = <<>>

NonFootprintIdle == JoinIdle /\ DedupIdle /\ DecomposeIdle /\ ReportIdle /\ BufferIdle /\ DinnerIdle /\ YearsIdle /\ CacheIdle /\ HashIdle /\ CountsIdle /\ CategoryIdle /\ DissolveIdle /\ NormalizeIdle /\ InteractionIdle /\ ValidityIdle /\ EnrichIdle /\ RecurIdle /\ CallsIdle
NonJoinIdle == FootprintIdle /\ DedupIdle /\ DecomposeIdle /\ ReportIdle /\ BufferIdle /\ DinnerIdle /\ YearsIdle /\ CacheIdle /\ HashIdle /\ CountsIdle /\ CategoryIdle /\ DissolveIdle /\ NormalizeIdle /\ InteractionIdle /\ ValidityIdle /\ EnrichIdle /\ RecurIdle /\ CallsIdle
NonDedupIdle == FootprintIdle /\ JoinIdle /\ DecomposeIdle /\ ReportIdle /\ BufferIdle /\ DinnerIdle /\ YearsIdle /\ CacheIdle /\ HashIdle /\ CountsIdle /\ CategoryIdle /\ DissolveIdle /\ NormalizeIdle /\ InteractionIdle /\ ValidityIdle /\ EnrichIdle /\ RecurIdle /\ CallsIdle
NonDecomposeIdle == FootprintIdle /\ JoinIdle /\ DedupIdle /\ ReportIdle /\ BufferIdle /\ DinnerIdle /\ YearsIdle /\ CacheIdle /\ HashIdle /\ CountsIdle /\ CategoryIdle /\ DissolveIdle /\ NormalizeIdle /\ InteractionIdle /\ ValidityIdle /\ EnrichIdle /\ RecurIdle /\ CallsIdle
NonReportIdle == FootprintIdle /\ JoinIdle /\ DedupIdle /\ DecomposeIdle /\ BufferIdle /\ DinnerIdle /\ YearsIdle /\ CacheIdle /\ HashIdle /\ CountsIdle /\ CategoryIdle /\ DissolveIdle /\ NormalizeIdle /\ InteractionIdle /\ ValidityIdle /\ EnrichIdle /\ RecurIdle /\ CallsIdle
NonBufferIdle == FootprintIdle /\ JoinIdle /\ DedupIdle /\ DecomposeIdle /\ ReportIdle /\ DinnerIdle /\ YearsIdle /\ CacheIdle /\ HashIdle /\ CountsIdle /\ CategoryIdle /\ DissolveIdle /\ NormalizeIdle /\ InteractionIdle /\ ValidityIdle /\ EnrichIdle /\ RecurIdle /\ CallsIdle
NonDinnerIdle == FootprintIdle /\ JoinIdle /\ DedupIdle /\ DecomposeIdle /\ ReportIdle /\ BufferIdle /\ YearsIdle /\ CacheIdle /\ HashIdle /\ CountsIdle /\ CategoryIdle /\ DissolveIdle /\ NormalizeIdle /\ InteractionIdle /\ ValidityIdle /\ EnrichIdle /\ RecurIdle /\ CallsIdle
NonYearsIdle == FootprintIdle /\ JoinIdle /\ DedupIdle /\ DecomposeIdle /\ ReportIdle /\ BufferIdle /\ DinnerIdle /\ CacheIdle /\ HashIdle /\ CountsIdle /\ CategoryIdle /\ DissolveIdle /\ NormalizeIdle /\ InteractionIdle /\ ValidityIdle /\ EnrichIdle /\ RecurIdle /\ CallsIdle
NonCacheIdle == FootprintIdle /\ JoinIdle /\ DedupIdle /\ DecomposeIdle /\ ReportIdle /\ BufferIdle /\ DinnerIdle /\ YearsIdle /\ HashIdle /\ CountsIdle /\ CategoryIdle /\ DissolveIdle /\ NormalizeIdle /\ InteractionIdle /\ ValidityIdle /\ EnrichIdle /\ RecurIdle /\ CallsIdle
NonHashIdle == FootprintIdle /\ JoinIdle /\ DedupIdle /\ DecomposeIdle /\ ReportIdle /\ BufferIdle /\ DinnerIdle /\ YearsIdle /\ CacheIdle /\ CountsIdle /\ CategoryIdle /\ DissolveIdle /\ NormalizeIdle /\ InteractionIdle /\ ValidityIdle /\ EnrichIdle /\ RecurIdle /\ CallsIdle
NonCountsIdle == FootprintIdle /\ JoinIdle /\ DedupIdle /\ DecomposeIdle /\ ReportIdle /\ BufferIdle /\ DinnerIdle /\ YearsIdle /\ CacheIdle /\ HashIdle /\ CategoryIdle /\ DissolveIdle /\ NormalizeIdle /\ InteractionIdle /\ ValidityIdle /\ EnrichIdle /\ RecurIdle /\ CallsIdle
NonCategoryIdle == FootprintIdle /\ JoinIdle /\ DedupIdle /\ DecomposeIdle /\ ReportIdle /\ BufferIdle /\ DinnerIdle /\ YearsIdle /\ CacheIdle /\ HashIdle /\ CountsIdle /\ DissolveIdle /\ NormalizeIdle /\ InteractionIdle /\ ValidityIdle /\ EnrichIdle /\ RecurIdle /\ CallsIdle
NonDissolveIdle == FootprintIdle /\ JoinIdle /\ DedupIdle /\ DecomposeIdle /\ ReportIdle /\ BufferIdle /\ DinnerIdle /\ YearsIdle /\ CacheIdle /\ HashIdle /\ CountsIdle /\ CategoryIdle /\ NormalizeIdle /\ InteractionIdle /\ ValidityIdle /\ EnrichIdle /\ RecurIdle /\ CallsIdle
NonNormalizeIdle == FootprintIdle /\ JoinIdle /\ DedupIdle /\ DecomposeIdle /\ ReportIdle /\ BufferIdle /\ DinnerIdle /\ YearsIdle /\ CacheIdle /\ HashIdle /\ CountsIdle /\ CategoryIdle /\ DissolveIdle /\ InteractionIdle /\ ValidityIdle /\ EnrichIdle /\ RecurIdle /\ CallsIdle
NonInteractionIdle == FootprintIdle /\ JoinIdle /\ DedupIdle /\ DecomposeIdle /\ ReportIdle /\ BufferIdle /\ DinnerIdle /\ YearsIdle /\ CacheIdle /\ HashIdle /\ CountsIdle /\ CategoryIdle /\ DissolveIdle /\ NormalizeIdle /\ ValidityIdle /\ EnrichIdle /\ RecurIdle /\ CallsIdle
NonValidityIdle == FootprintIdle /\ JoinIdle /\ DedupIdle /\ DecomposeIdle /\ ReportIdle /\ BufferIdle /\ DinnerIdle /\ YearsIdle /\ CacheIdle /\ HashIdle /\ CountsIdle /\ CategoryIdle /\ DissolveIdle /\ NormalizeIdle /\ InteractionIdle /\ EnrichIdle /\ RecurIdle /\ CallsIdle
NonEnrichIdle == FootprintIdle /\ JoinIdle /\ DedupIdle /\ DecomposeIdle /\ ReportIdle /\ BufferIdle /\ DinnerIdle /\ YearsIdle /\ CacheIdle /\ HashIdle /\ CountsIdle /\ CategoryIdle /\ DissolveIdle /\ NormalizeIdle /\ InteractionIdle /\ ValidityIdle /\ RecurIdle /\ CallsIdle
NonRecurIdle == FootprintIdle /\ JoinIdle /\ DedupIdle /\ DecomposeIdle /\ ReportIdle /\ BufferIdle /\ DinnerIdle /\ YearsIdle /\ CacheIdle /\ HashIdle /\ CountsIdle /\ CategoryIdle /\ DissolveIdle /\ NormalizeIdle /\ InteractionIdle /\ ValidityIdle /\ EnrichIdle /\ CallsIdle
NonCallsIdle == FootprintIdle /\ JoinIdle /\ DedupIdle /\ DecomposeIdle /\ ReportIdle /\ BufferIdle /\ DinnerIdle /\ YearsIdle /\ CacheIdle /\ HashIdle /\ CountsIdle /\ CategoryIdle /\ DissolveIdle /\ NormalizeIdle /\ InteractionIdle /\ ValidityIdle /\ EnrichIdle /\ RecurIdle

InitFootprint ==
    /\ NonFootprintIdle
    /\ strategy \in {"nop", "p2"}
    /\ fpc = "dissolved"
    /\ dissolved_cur_y \in DissolvedLayers
    /\ enrich_null \in {S \in SUBSET {dissolved_cur_y[k].TRMTID_USER : k \in DOMAIN dissolved_cur_y} :
                           /\ Cardinality(S) <= MaxNullRows
                           /\ strategy = "nop" => S = {}}
    /\ GDF_CUR = <<>>
    /\ INTERSECTION_LIST = <<>>
    /\ results = <<>>
    /\ completed = {}
    /\ original = <<>>
    /\ meatball = <<>>
    /\ spaghetti = <<>>
    /\ footprint = <<>>
    /\ run = 1
    /\ first_footprint = {}

\* footprint_nop.get_footprint, lines 331-341: make_valid, the globals.
NopPrepare ==
    /\ UNCHANGED nonfvars
    /\ strategy = "nop" /\ fpc = "dissolved"
    /\ GDF_CUR' = dissolved_cur_y
    /\ INTERSECTION_LIST' = get_interaction_list(dissolved_cur_y)
    /\ results' = [i \in DOMAIN dissolved_cur_y |-> <<>>]
    /\ fpc' = "pool"
    /\ UNCHANGED <<strategy, dissolved_cur_y, enrich_null, completed, original, meatball,
                   spaghetti, footprint, run, first_footprint>>

\* One worker of the pool returns get_NOP_mp(i); tasks complete in any order.
NopTask(i) ==
    /\ UNCHANGED nonfvars
    /\ strategy = "nop" /\ fpc = "pool"
    /\ i \in DOMAIN GDF_CUR /\ i \notin completed
    /\ results' = [results EXCEPT ![i] = get_NOP_mp(i)]
    /\ completed' = completed \cup {i}
    /\ UNCHANGED <<strategy, fpc, dissolved_cur_y, enrich_null, GDF_CUR, INTERSECTION_LIST,
                   original, meatball, spaghetti, footprint, run, first_footprint>>

\* pool.map has returned: pd.concat(results) is saved; concat of no frame raises.
NopSave ==
    /\ UNCHANGED nonfvars
    /\ strategy = "nop" /\ fpc = "pool"
    /\ completed = DOMAIN GDF_CUR
    /\ IF Len(results) = 0
       THEN fpc' = "error" /\ UNCHANGED footprint
       ELSE fpc' = "saved" /\ footprint' = FlatConcat(results)
    /\ UNCHANGED <<strategy, dissolved_cur_y, enrich_null, GDF_CUR, INTERSECTION_LIST, results,
                   completed, original, meatball, spaghetti, run, first_footprint>>

\* footprint.get_footprint, lines 239 and 273-287: the union geometry of an empty
\* year raises; otherwise make_valid, remove_duplicates, the anchor points, and
\* the three temp layers.
P2SaveTemp ==
    /\ UNCHANGED nonfvars
    /\ strategy = "p2" /\ fpc = "dissolved"
    /\ IF Len(dissolved_cur_y) = 0
       THEN fpc' = "error" /\ UNCHANGED <<original, meatball>>
       ELSE LET unique == remove_duplicates_layer(dissolved_cur_y)
            IN /\ original' = unique
               /\ meatball' = [k \in DOMAIN unique |->
                                  CellOf(unique[k], RepresentativePoint(unique[k].geometry))]
               /\ fpc' = "temp"
    /\ UNCHANGED <<strategy, dissolved_cur_y, enrich_null, GDF_CUR, INTERSECTION_LIST, results,
                   completed, spaghetti, footprint, run, first_footprint>>

\* get_nop_arcpy: FeatureToPolygon on the exploded layer.
P2FeatureToPolygon ==
    /\ UNCHANGED nonfvars
    /\ strategy = "p2" /\ fpc = "temp"
    /\ spaghetti' = FeatureToPolygon(Explode(original))
    /\ fpc' = "faces"
    /\ UNCHANGED <<strategy, dissolved_cur_y, enrich_null, GDF_CUR, INTERSECTION_LIST, results,
                   completed, original, meatball, footprint, run, first_footprint>>

\* get_footprint_p2 for the year.
P2Footprint ==
    /\ UNCHANGED nonfvars
    /\ strategy = "p2" /\ fpc = "faces"
    /\ \E joined \in {Dropna(SjoinLeft(spaghetti, meatball), meatball, enrich_null)} :
       \E qs \in {[k \in DOMAIN joined |-> meatball[joined[k].right].ACTIVITY_QUANTITY]} :
       \E sorted \in SortValues(joined, qs) :
           footprint' = Footprint_p2(sorted, meatball, original)
    /\ fpc' = "saved"
    /\ UNCHANGED <<strategy, dissolved_cur_y, enrich_null, GDF_CUR, INTERSECTION_LIST, results,
                   completed, original, meatball, spaghetti, run, first_footprint>>

\* The resolver is run a second time on the same year input.
P2Rerun ==
    /\ UNCHANGED nonfvars
    /\ strategy = "p2" /\ fpc = "saved" /\ run = 1
    /\ first_footprint' = FootprintCells(footprint)
    /\ run' = 2
    /\ fpc' = "dissolved"
    /\ original' = <<>> /\ meatball' = <<>> /\ spaghetti' = <<>> /\ footprint' = <<>>
    /\ UNCHANGED <<strategy, dissolved_cur_y, enrich_null, GDF_CUR, INTERSECTION_LIST, results,
                   completed>>

NextFootprint ==
    \/ NopPrepare
    \/ \E i \in TreatmentIds : NopTask(i)
    \/ NopSave
    \/ P2SaveTemp
    \/ P2FeatureToPolygon
    \/ P2Footprint
    \/ P2Rerun

SpecFootprint == InitFootprint /\ [][NextFootprint]_vars

\* ------------------------------------------------ get_NOP_recur on its own
\* Length of the neighbor list.
MaxNeighbors == 3

InitDecompose ==
    /\ NonDecomposeIdle
    /\ target \in Geoms
    /\ neighbors \in UNION {[1..n -> Geoms] : n \in 0..MaxNeighbors}
    /\ nop = <<>>
    /\ npc = "called"

\* flatten(get_NOP_recur(gdf1, gdf2))
Decompose ==
    /\ npc = "called"
    /\ nop' = get_NOP_recur(target, neighbors)
    /\ npc' = "returned"
    /\ UNCHANGED <<target, neighbors>>
    /\ UNCHANGED nonnvars

NextDecompose == Decompose

SpecDecompose == InitDecompose /\ [][NextDecompose]_vars

\* ------------------------------------------------ concurrent_join machine
\* Rows of the model's input (the code splits at 3000 rows; ChunkSize is the
\* model's chunk size) and workers of the pool (6 in the code).
NRows == 5
ChunkSize == 2
MaxWorkers == 2

None == <<>>

Min(a, b) == IF a <= b THEN a ELSE b

\* split_gdf: consecutive slices of chunk_size rows, the last possibly shorter.
split_gdf(gdf, chunk_size) ==
    [c \in 1..((Len(gdf) + chunk_size - 1) \div chunk_size) |->
        SubSeq(gdf, (c - 1) * chunk_size + 1, Min(c * chunk_size, Len(gdf)))]

\* perform_spatial_join's right join keeps every row of the chunk; the joined
\* rows of a chunk stand for themselves.
JoinedRows(chunk) == chunk

Chunks == DOMAIN in_polygons_chunks

Finished(i) == task[i] \in {"done", "raised"}

ShutdownNoWait == TRUE

\* executor.shutdown(wait=True), at the end of the with-block and in finally:
\* returns once every submitted task has finished.
ShutdownWaits == \A i \in Chunks : Finished(i)

\* cleanup_parquet_files: every file matching /tmp/chunk_result_* is removed.
cleanup_parquet_files(files) == {}

InitJoin ==
    /\ NonJoinIdle
    /\ in_polygons \in {[r \in 1..n |-> r] : n \in 0..NRows}
    /\ in_polygons_chunks = <<>>
    /\ jpc = "split"
    /\ task = <<>>
    /\ disk = {}
    /\ jk = 0
    /\ jresults = <<>>
    /\ result_files = <<>>
    /\ combined_result = None
    /\ exc = FALSE
    /\ returned = None
    /\ submits = <<>>
    /\ first_outcome = <<>>
    /\ result_calls = <<>>
    /\ written = {}

\* line 59
Split ==
    /\ jpc = "split"
    /\ in_polygons_chunks' = split_gdf(in_polygons, ChunkSize)
    /\ jpc' = "submit"
    /\ UNCHANGED <<in_polygons, task, disk, jk, jresults, result_files,
                   combined_result, exc, returned, submits, first_outcome,
                   result_calls, written>>
    /\ UNCHANGED nonjvars

\* lines 64-66: the pool is created and every chunk is submitted.
Submit ==
    /\ jpc = "submit"
    /\ task' = [i \in Chunks |-> "queued"]
    /\ submits' = [i \in Chunks |-> 1]
    /\ first_outcome' = [i \in Chunks |-> "none"]
    /\ result_calls' = [i \in Chunks |-> 0]
    /\ jresults' = <<>>
    /\ jk' = 1
    /\ jpc' = "collect"
    /\ UNCHANGED <<in_polygons, in_polygons_chunks, disk, result_files,
                   combined_result, exc, returned, written>>
    /\ UNCHANGED nonjvars

\* A free worker of the pool takes the oldest queued task.
WorkerStart(i) ==
    /\ i \in DOMAIN task /\ task[i] = "queued"
    /\ \A j \in 1..(i - 1) : task[j] # "queued"
    /\ Cardinality({j \in DOMAIN task : task[j] = "running"}) < MaxWorkers
    /\ task' = [task EXCEPT ![i] = "running"]
    /\ UNCHANGED <<in_polygons, in_polygons_chunks, jpc, disk, jk, jresults,
                   result_files, combined_result, exc, returned, submits,
                   first_outcome, result_calls, written>>
    /\ UNCHANGED nonjvars

\* perform_spatial_join, lines 41-47: the join is written to the chunk's file.
WorkerFinish(i) ==
    /\ i \in DOMAIN task /\ task[i] = "running"
    /\ task' = [task EXCEPT ![i] = "done"]
    /\ disk' = disk \cup {i}
    /\ written' = written \cup {i}
    /\ UNCHANGED <<in_polygons, in_polygons_chunks, jpc, jk, jresults,
                   result_files, combined_result, exc, returned, submits,
                   first_outcome, result_calls>>
    /\ UNCHANGED nonjvars

\* perform_spatial_join, lines 48-50: the join or the write raises; a write that
\* fails may leave a partial file.
WorkerRaise(i) ==
    /\ i \in DOMAIN task /\ task[i] = "running"
    /\ task' = [task EXCEPT ![i] = "raised"]
    /\ \E partial \in BOOLEAN :
           /\ disk' = IF partial THEN disk \cup {i} ELSE disk
           /\ written' = IF partial THEN written \cup {i} ELSE written
    /\ UNCHANGED <<in_polygons, in_polygons_chunks, jpc, jk, jresults,
                   result_files, combined_result, exc, returned, submits,
                   first_outcome, result_calls>>
    /\ UNCHANGED nonjvars

\* lines 67-70: future.result(timeout=300) returns the chunk's file.
CollectResult ==
    /\ jpc = "collect" /\ jk \in Chunks /\ task[jk] = "done"
    /\ jresults' = Append(jresults, jk)
    /\ first_outcome' = [first_outcome EXCEPT ![jk] = "ok"]
    /\ result_calls' = [result_calls EXCEPT ![jk] = @ + 1]
    /\ jk' = jk + 1
    /\ UNCHANGED <<in_polygons, in_polygons_chunks, jpc, task, disk, result_files,
                   combined_result, exc, returned, submits, written>>
    /\ UNCHANGED nonjvars

\* lines 73-74: future.result(timeout=300) raises the task's exception; logged.
CollectError ==
    /\ jpc = "collect" /\ jk \in Chunks /\ task[jk] = "raised"
    /\ first_outcome' = [first_outcome EXCEPT ![jk] = "error"]
    /\ result_calls' = [result_calls EXCEPT ![jk] = @ + 1]
    /\ jk' = jk + 1
    /\ UNCHANGED <<in_polygons, in_polygons_chunks, jpc, task, disk, jresults,
                   result_files, combined_result, exc, returned, submits, written>>
    /\ UNCHANGED nonjvars

\* lines 71-72: the task has not finished when the timeout expires; logged.
CollectTimeout ==
    /\ jpc = "collect" /\ jk \in Chunks /\ ~Finished(jk)
    /\ first_outcome' = [first_outcome EXCEPT ![jk] = "timeout"]
    /\ result_calls' = [result_calls EXCEPT ![jk] = @ + 1]
    /\ jk' = jk + 1
    /\ UNCHANGED <<in_polygons, in_polygons_chunks, jpc, task, disk, jresults,
                   result_files, combined_result, exc, returned, submits, written>>
    /\ UNCHANGED nonjvars

\* The first loop is over; line 75 starts.
CollectEnd ==
    /\ jpc = "collect" /\ jk \notin Chunks
    /\ jpc' = "recollect"
    /\ jk' = 1
    /\ result_files' = <<>>
    /\ UNCHANGED <<in_polygons, in_polygons_chunks, task, disk, jresults,
                   combined_result, exc, returned, submits, first_outcome,
                   result_calls, written>>
    /\ UNCHANGED nonjvars

\* line 75: future.result() with no timeout, on every future; it blocks until the
\* task has finished and returns the chunk's file.
RecollectResult ==
    /\ jpc = "recollect" /\ jk \in Chunks /\ task[jk] = "done"
    /\ result_files' = Append(result_files, jk)
    /\ result_calls' = [result_calls EXCEPT ![jk] = @ + 1]
    /\ jk' = jk + 1
    /\ UNCHANGED <<in_polygons, in_polygons_chunks, jpc, task, disk, jresults,
                   combined_result, exc, returned, submits, first_outcome, written>>
    /\ UNCHANGED nonjvars

\* line 75: future.result() raises the task's exception, which leaves the
\* with-block.
RecollectRaise ==
    /\ jpc = "recollect" /\ jk \in Chunks /\ task[jk] = "raised"
    /\ result_calls' = [result_calls EXCEPT ![jk] = @ + 1]
    /\ exc' = TRUE
    /\ jpc' = "exit"
    /\ UNCHANGED <<in_polygons, in_polygons_chunks, task, disk, jk, jresults,
                   result_files, combined_result, returned, submits, first_outcome,
                   written>>
    /\ UNCHANGED nonjvars

\* line 77
RecollectEnd ==
    /\ jpc = "recollect" /\ jk \notin Chunks
    /\ combined_result' = None
    /\ jpc' = "combine"
    /\ jk' = 1
    /\ UNCHANGED <<in_polygons, in_polygons_chunks, task, disk, jresults,
                   result_files, exc, returned, submits, first_outcome,
                   result_calls, written>>
    /\ UNCHANGED nonjvars

\* lines 78-83: the file is read; `if combined_result:` is false for None, so
\* the concatenation is not taken and combined_result stays None.
CombineRead ==
    /\ jpc = "combine" /\ jk \in DOMAIN result_files
    /\ result_files[jk] \in disk
    /\ LET tmp == JoinedRows(in_polygons_chunks[result_files[jk]])
       IN combined_result' = IF combined_result # None
                             THEN <<combined_result[1] \o tmp>>
                             ELSE combined_result
    /\ jk' = jk + 1
    /\ UNCHANGED <<in_polygons, in_polygons_chunks, jpc, task, disk, jresults,
                   result_files, exc, returned, submits, first_outcome,
                   result_calls, written>>
    /\ UNCHANGED nonjvars

\* line 80: gpd.read_file raises (an unreadable file), which leaves the with-block.
CombineReadFails ==
    /\ jpc = "combine" /\ jk \in DOMAIN result_files
    /\ exc' = TRUE
    /\ jpc' = "exit"
    /\ UNCHANGED <<in_polygons, in_polygons_chunks, task, disk, jk, jresults,
                   result_files, combined_result, returned, submits, first_outcome,
                   result_calls, written>>
    /\ UNCHANGED nonjvars

CombineEnd ==
    /\ jpc = "combine" /\ jk \notin DOMAIN result_files
    /\ jpc' = "exit"
    /\ UNCHANGED <<in_polygons, in_polygons_chunks, task, disk, jk, jresults,
                   result_files, combined_result, exc, returned, submits,
                   first_outcome, result_calls, written>>
    /\ UNCHANGED nonjvars

\* The with-block ends (normally or by an exception): the executor's __exit__ is
\* shutdown(wait=True); an exception is then logged at lines 86-87.
ExitWith ==
    /\ jpc = "exit"
    /\ ShutdownWaits
    /\ jpc' = "finally"
    /\ UNCHANGED <<in_polygons, in_polygons_chunks, task, disk, jk, jresults,
                   result_files, combined_result, exc, returned, submits,
                   first_outcome, result_calls, written>>
    /\ UNCHANGED nonjvars

\* lines 88-92, and the end of the function: there is no return statement.
Finally ==
    /\ jpc = "finally"
    /\ disk' = cleanup_parquet_files(disk)
    /\ returned' = None
    /\ jpc' = "returned"
    /\ UNCHANGED <<in_polygons, in_polygons_chunks, task, jk, jresults,
                   result_files, combined_result, exc, submits, first_outcome,
                   result_calls, written>>
    /\ UNCHANGED nonjvars

NextJoin ==
    \/ Split
    \/ Submit
    \/ \E i \in 1..NRows : WorkerStart(i)
    \/ \E i \in 1..NRows : WorkerFinish(i)
    \/ \E i \in 1..NRows : WorkerRaise(i)
    \/ CollectResult
    \/ CollectError
    \/ CollectTimeout
    \/ CollectEnd
    \/ RecollectResult
    \/ RecollectRaise
    \/ RecollectEnd
    \/ CombineRead
    \/ CombineReadFails
    \/ CombineEnd
    \/ ExitWith
    \/ Finally

SpecJoin == InitJoin /\ [][NextJoin]_vars

\* ------------------------------------------------ get_footprint_report machine
\* Records over the three input collections together.
MaxRecords == 2

\* A record of an input collection: its geometry is null, empty, or a geometry of
\* the collection's type; it counts or not; its quantity is 0 or 5 acres.  Every
\* record has ACTIVITY_UOM = AC; lines have positive length and are not CalTrans
\* records; polygons have TREATMENT_AREA below 100000.
ReportRecords(geom_type) ==
    [geometry : {"null", "empty", geom_type},
     COUNTS_TO_MAS : {"YES", "NO"},
     ACTIVITY_QUANTITY : {0, 5}]

get_rows_with_null_geometry(gdf) ==
    Len(SelectSeq(gdf, LAMBDA row : row.geometry = "null"))

\* get_rows_with_empty_geometry(gdf)[0]: the rows whose geometry is null or empty.
get_rows_with_empty_geometry(gdf) ==
    Len(SelectSeq(gdf, LAMBDA row : row.geometry = "null" \/ row.geometry = "empty"))

\* geometry.buffer(distance): a point or line buffered by 0 is the empty polygon.
Buffer(geometry, distance) ==
    IF geometry = "empty" THEN "empty"
    ELSE IF distance > 0 THEN "polygon"
    ELSE IF geometry = "polygon" THEN "polygon" ELSE "empty"

\* BufferMeters of a point is sqrt(q * 4046.86 / pi) and of a line
\* q * 4046.86 / length / 2: zero for a quantity of zero, positive otherwise.
BufferMeters(row) == row.ACTIVITY_QUANTITY

Buffered(row) ==
    [row EXCEPT !.geometry = Buffer(row.geometry, BufferMeters(row))]

\* update_pt: the counting points with a positive buffer distance, buffered.
update_pt(points) ==
    LET selected_points == SelectSeq(points,
            LAMBDA row : row.COUNTS_TO_MAS = "YES" /\ BufferMeters(row) > 0)
    IN [k \in DOMAIN selected_points |-> Buffered(selected_points[k])]

\* update_ln: the counting lines, buffered by their buffer distance.
update_ln(lines) ==
    LET selected_lines == SelectSeq(lines, LAMBDA row : row.COUNTS_TO_MAS = "YES")
    IN [k \in DOMAIN selected_lines |-> Buffered(selected_lines[k])]

\* update_poly: the counting polygons.
update_poly(polygons) ==
    SelectSeq(polygons, LAMBDA row : row.COUNTS_TO_MAS = "YES")

InitReport ==
    /\ NonReportIdle
    /\ enriched_points \in UNION {[1..n -> ReportRecords("point")] : n \in 0..MaxRecords}
    /\ enriched_lines \in UNION {[1..n -> ReportRecords("line")] : n \in 0..MaxRecords}
    /\ enriched_polygons \in UNION {[1..n -> ReportRecords("polygon")] : n \in 0..MaxRecords}
    /\ Len(enriched_points) + Len(enriched_lines) + Len(enriched_polygons) <= MaxRecords
    /\ buffer_pts = <<>> /\ buffer_lines = <<>> /\ processed_polys = <<>>
    /\ rpc = "check_points"
    /\ halted_at = ""
    /\ generated = FALSE

\* One of the six checks: exit() when the collection has a null or empty
\* geometry, otherwise on to the next step.
Check(at, gdf, next) ==
    /\ rpc = at
    /\ IF get_rows_with_empty_geometry(gdf) > 0
       THEN rpc' = "halted" /\ halted_at' = at
       ELSE rpc' = next /\ UNCHANGED halted_at
    /\ UNCHANGED <<enriched_points, enriched_lines, enriched_polygons, buffer_pts,
                   buffer_lines, processed_polys, generated>>
    /\ UNCHANGED nonrvars

\* lines 274-276
CheckPoints == Check("check_points", enriched_points, "check_lines")

\* lines 278-280
CheckLines == Check("check_lines", enriched_lines, "check_polygons")

\* lines 282-284
CheckPolygons == Check("check_polygons", enriched_polygons, "update_pt")

\* line 287
UpdatePt ==
    /\ rpc = "update_pt"
    /\ buffer_pts' = update_pt(enriched_points)
    /\ rpc' = "check_buffer_pts"
    /\ UNCHANGED <<enriched_points, enriched_lines, enriched_polygons, buffer_lines,
                   processed_polys, halted_at, generated>>
    /\ UNCHANGED nonrvars

\* lines 289-291
CheckBufferPts == Check("check_buffer_pts", buffer_pts, "update_ln")

\* line 294
UpdateLn ==
    /\ rpc = "update_ln"
    /\ buffer_lines' = update_ln(enriched_lines)
    /\ rpc' = "check_buffer_lines"
    /\ UNCHANGED <<enriched_points, enriched_lines, enriched_polygons, buffer_pts,
                   processed_polys, halted_at, generated>>
    /\ UNCHANGED nonrvars

\* lines 296-298
CheckBufferLines == Check("check_buffer_lines", buffer_lines, "update_poly")

\* line 301
UpdatePoly ==
    /\ rpc = "update_poly"
    /\ processed_polys' = update_poly(enriched_polygons)
    /\ rpc' = "check_processed_polys"
    /\ UNCHANGED <<enriched_points, enriched_lines, enriched_polygons, buffer_pts,
                   buffer_lines, halted_at, generated>>
    /\ UNCHANGED nonrvars

\* lines 303-305
CheckProcessedPolys == Check("check_processed_polys", processed_polys, "generate")

\* lines 308-323: the three collections are combined and get_footprint is called.
Generate ==
    /\ rpc = "generate"
    /\ generated' = TRUE
    /\ rpc' = "generated"
    /\ UNCHANGED <<enriched_points, enriched_lines, enriched_polygons, buffer_pts,
                   buffer_lines, processed_polys, halted_at>>
    /\ UNCHANGED nonrvars

NextReport ==
    \/ CheckPoints
    \/ CheckLines
    \/ CheckPolygons
    \/ UpdatePt
    \/ CheckBufferPts
    \/ UpdateLn
    \/ CheckBufferLines
    \/ UpdatePoly
    \/ CheckProcessedPolys
    \/ Generate

SpecReport == InitReport /\ [][NextReport]_vars

\* ------------------------------------------------ quantity buffering
\* Lengths are in centimetres and areas in square centimetres, in integers.
\* Greatest quantity of a record, in acres.
MaxQuantity == 5

\* The lengths of the (straight) lines: 50 m to 1 km.
LineLengths == {5000, 10000, 20000, 50000, 100000}

\* 4046.86 square metres per acre.
SqCmPerAcre == 40468600

\* math.pi, in thousandths.
PiPer1000 == 3142

\* The area of the buffer of a point by distance 1, in thousandths: buffer() draws
\* a circle as a polygon of 16 segments per quadrant, of area 32 sin(pi / 32).
CirclePer1000 == 3137

ISqrt(x) == CHOOSE r \in 0..10000 : r * r <= x /\ x < (r + 1) * (r + 1)

\* update_pt: BufferMeters = sqrt(q * 4046.86 / pi)
PointBufferMeters(q) == ISqrt(((q * SqCmPerAcre) \div PiPer1000) * 1000)

\* update_ln: BufferMeters = q * 4046.86 / length / 2
LineBufferMeters(q, length) == ((q * SqCmPerAcre) \div length) \div 2

\* Area of point.buffer(r): the polygon drawn for the circle of radius r.
CircleArea(r) == ((r * r) \div 1000) * CirclePer1000

\* Area of line.buffer(r, cap_style='flat') for a straight line: the rectangle
\* of width 2 r along the line.
FlatBufferArea(length, r) == 2 * r * length

\* Area of line.buffer(r) for a straight line: buffer()'s default cap style is
\* round, a half circle of radius r at each end of the rectangle.
RoundBufferArea(length, r) == FlatBufferArea(length, r) + CircleArea(r)

\* The cap style of the line buffer: footprint_nop.update_ln passes
\* cap_style='flat', footprint_report.update_ln passes none.
LineBufferArea(module, length, r) ==
    IF module = "footprint_nop" THEN FlatBufferArea(length, r)
    ELSE RoundBufferArea(length, r)

InitBuffer ==
    /\ NonBufferIdle
    /\ bmodule \in {"footprint_nop", "footprint_report"}
    /\ btype \in {"point", "line"}
    /\ ACTIVITY_QUANTITY \in 1..MaxQuantity
    /\ line_length \in IF btype = "line" THEN LineLengths ELSE {0}
    /\ buffer_area = 0
    /\ bpc = "enriched"

\* update_pt on a counting point with unit AC.
UpdatePtBuffer ==
    /\ bpc = "enriched" /\ btype = "point"
    /\ buffer_area' = CircleArea(PointBufferMeters(ACTIVITY_QUANTITY))
    /\ bpc' = "buffered"
    /\ UNCHANGED <<bmodule, btype, ACTIVITY_QUANTITY, line_length>>
    /\ UNCHANGED nonbvars

\* update_ln on a counting line with unit AC.
UpdateLnBuffer ==
    /\ bpc = "enriched" /\ btype = "line"
    /\ buffer_area' = LineBufferArea(bmodule, line_length,
                                     LineBufferMeters(ACTIVITY_QUANTITY, line_length))
    /\ bpc' = "buffered"
    /\ UNCHANGED <<bmodule, btype, ACTIVITY_QUANTITY, line_length>>
    /\ UNCHANGED nonbvars

NextBuffer == UpdatePtBuffer \/ UpdateLnBuffer

SpecBuffer == InitBuffer /\ [][NextBuffer]_vars

\* ------------------------------------------------ the two worker pools
\* The recursive decomposer's per-feature pool and the chunked join's pool, each
\* with its tasks starting and completing in any order.
InitNop == InitFootprint /\ strategy = "nop"

NextNop ==
    \/ NopPrepare
    \/ \E i \in TreatmentIds : NopTask(i)
    \/ NopSave

SpecPools == (InitNop \/ InitJoin) /\ [][NextNop \/ NextJoin]_vars

\* ---------------------------------------------- remove_duplicates machine
\* Features of the model's collection.
MaxFeatures == 3

\* A polygon is its exterior ring: the sequence of its vertices, closed (the last
\* vertex repeats the first).  The collection's polygons are the vertex orders of
\* three triangles: one, its shift by one unit, and one sharing an edge with it.
Triangles == {{<<0, 0>>, <<1, 0>>, <<0, 1>>},
              {<<1, 0>>, <<2, 0>>, <<1, 1>>},
              {<<0, 0>>, <<1, 0>>, <<1, 1>>}}

closeRing(coords) == coords \o <<coords[1]>>

Rings == {closeRing(<<a, b, c>>) : <<a, b, c>> \in
             {t \in UNION {tr \X tr \X tr : tr \in Triangles} :
                  t[1] # t[2] /\ t[1] # t[3] /\ t[2] # t[3]}}

Reverse(s) == [k \in DOMAIN s |-> s[Len(s) + 1 - k]]

\* Coordinate order: by x, then by y.
CoordinateLess(p, q) == p[1] < q[1] \/ (p[1] = q[1] /\ p[2] < q[2])

minCoordinate(coords) ==
    CHOOSE p \in Range(coords) : \A q \in Range(coords) : p = q \/ CoordinateLess(p, q)

\* CoordinateSequence::scroll: the sequence rotated to start at firstCoordinate.
scroll(coords, firstCoordinate) ==
    LET i == CHOOSE k \in DOMAIN coords :
                 coords[k] = firstCoordinate /\ \A j \in 1..(k - 1) : coords[j] # firstCoordinate
    IN [k \in DOMAIN coords |-> coords[((k + i - 2) % Len(coords)) + 1]]

RECURSIVE SignedArea2(_)
SignedArea2(ring) ==
    IF Len(ring) < 2 THEN 0
    ELSE ring[1][1] * ring[2][2] - ring[2][1] * ring[1][2] + SignedArea2(Tail(ring))

isCCW(ring) == SignedArea2(ring) > 0

normalize_no_scroll(ring) ==
    IF isCCW(ring) THEN Reverse(ring) ELSE ring

\* geometry.normalize() of a polygon: the ring without its closing vertex is
\* scrolled to its least coordinate, closed again, and reversed if it runs
\* counter-clockwise.
normalize(ring) ==
    LET coords == SubSeq(ring, 1, Len(ring) - 1)
        closed == closeRing(scroll(coords, minCoordinate(coords)))
    IN IF isCCW(closed) THEN Reverse(closed) ELSE closed

\* .wkb: the ring's coordinates written out one after the other.
wkb(ring) == FlatConcat([k \in DOMAIN ring |-> <<ring[k][1], ring[k][2]>>])

\* remove_duplicates: the rows whose normalized wkb did not occur in an earlier
\* row, re-indexed.
remove_duplicates(gdf) ==
    LET normalized_wkb == [k \in DOMAIN gdf |-> wkb(normalize(gdf[k]))]
    IN Mask(gdf, [k \in DOMAIN gdf |-> ~ Duplicated(normalized_wkb)[k]])

InitDedup ==
    /\ NonDedupIdle
    /\ gdf_in \in UNION {[1..n -> Rings] : n \in 0..MaxFeatures}
    /\ unique_gdf = <<>>
    /\ dpc = "called"

RemoveDuplicates ==
    /\ dpc = "called"
    /\ unique_gdf' = remove_duplicates(gdf_in)
    /\ dpc' = "returned"
    /\ UNCHANGED gdf_in
    /\ UNCHANGED nondvars

NextDedup == RemoveDuplicates

SpecDedup == InitDedup /\ [][NextDedup]_vars

\* ------------------------------------------------ footprint_report.get_footprint
\* The years of the run (year_start..year_end), the treatments and the agencies of
\* the input rows, and the numbers of input rows.
Years == {1, 2}
ReportTreatmentIds == {1, 2}
Agencies == {"CALSTA", "USFS"}
InputRowCounts == {0, 1, 2}

InputRows ==
    [Year : Years, TRMTID_USER : ReportTreatmentIds, AGENCY : Agencies,
     ACTIVITY_QUANTITY : Quantities, geometry : Geoms]

\* Own_Veg_Region_WUI: the reference layer covers the ground, one polygon per
\* cell, with alternating ownership groups.
own_veg_region_wui ==
    [c \in Cells |-> [PRIMARY_OWNERSHIP_GROUP |-> IF c % 2 = 1 THEN "FEDERAL" ELSE "PRIVATE",
                      geometry |-> {c}]]

\* geometry.representative_point() of every row.
RepresentativePoints(rows) ==
    [k \in DOMAIN rows |-> [rows[k] EXCEPT !.geometry = RepresentativePoint(rows[k].geometry)]]

\* dissolve(by='TRMTID_USER'): one row per treatment, in treatment order, its
\* geometry the union of the treatment's rows.
DissolveByTreatment(rows) ==
    LET ids == SetToSortedSeq({rows[k].TRMTID_USER : k \in DOMAIN rows})
    IN [n \in DOMAIN ids |->
           [geometry |-> UNION {rows[k].geometry :
                                   k \in {j \in DOMAIN rows : rows[j].TRMTID_USER = ids[n]}}]]

\* explode(): one row per part, parts from left to right.
ExplodeRows(rows) ==
    FlatConcat([k \in DOMAIN rows |->
        LET starts == SetToSortedSeq({r[1] : r \in Runs(rows[k].geometry)})
        IN [n \in DOMAIN starts |->
               LET r == CHOOSE r \in Runs(rows[k].geometry) : r[1] = starts[n]
               IN [geometry |-> r[1]..r[2]]]])

\* gpd.overlay(spaghetti_polygons, own_veg_region_wui, how='identity'): every part
\* cut by the reference polygons, each piece with the reference polygon's columns.
OverlayIdentity(parts, reference) ==
    FlatConcat([k \in DOMAIN parts |->
        LET hit == SelectSeq([o \in DOMAIN reference |-> o],
                             LAMBDA o : parts[k].geometry \cap reference[o].geometry # {})
        IN [n \in DOMAIN hit |->
               [PRIMARY_OWNERSHIP_GROUP |-> reference[hit[n]].PRIMARY_OWNERSHIP_GROUP,
                geometry |-> parts[k].geometry \cap reference[hit[n]].geometry]]])

\* lines 219-230: the pieces within the dissolved CALSTA rows of the whole input
\* get PRIMARY_OWNERSHIP_GROUP = STATE.
CaltransOverride(pieces, input) ==
    LET caltrans_projects ==
            UNION {input[k].geometry : k \in {j \in DOMAIN input : input[j].AGENCY = "CALSTA"}}
    IN [k \in DOMAIN pieces |->
           IF pieces[k].geometry \subseteq caltrans_projects
           THEN [pieces[k] EXCEPT !.PRIMARY_OWNERSHIP_GROUP = "STATE"]
           ELSE pieces[k]]

RECURSIVE SumOf(_, _)
SumOf(S, f) == IF S = {} THEN 0 ELSE LET x == CHOOSE x \in S : TRUE IN f[x] + SumOf(S \ {x}, f)

\* lines 236-241: the pieces joined with the points they hold, grouped by piece;
\* the mean is kept as <<sum, count>>.  A cell of ground is one acre.
Dinner(pieces, meatballs, y) ==
    LET held(k) == {m \in DOMAIN meatballs :
                        PointIntersects(meatballs[m].geometry, pieces[k].geometry)}
        kept == SelectSeq([k \in DOMAIN pieces |-> k], LAMBDA k : held(k) # {})
        qty == [m \in DOMAIN meatballs |-> meatballs[m].ACTIVITY_QUANTITY]
    IN [n \in DOMAIN kept |->
           [ACTIVITY_QUANTITY_mean |-> <<SumOf(held(kept[n]), qty), Cardinality(held(kept[n]))>>,
            ACTIVITY_QUANTITY_max |-> CHOOSE q \in {qty[m] : m \in held(kept[n])} :
                                          \A m \in held(kept[n]) : qty[m] <= q,
            FootprintAcres |-> Area(pieces[kept[n]].geometry),
            geometry |-> pieces[kept[n]].geometry,
            Year_txt |-> y]]

InitDinner ==
    /\ NonDinnerIdle
    /\ input_gdf \in UNION {[1..n -> InputRows] : n \in InputRowCounts}
    /\ year = 1
    /\ caltrans_join = <<>>
    /\ footprint_lst = <<>>
    /\ footprint_out = <<>>
    /\ gpc = "loop"

\* lines 191-193: a year with no record is skipped.
SkipYear ==
    /\ gpc = "loop" /\ year \in Years
    /\ SelectSeq(input_gdf, LAMBDA row : row.Year = year) = <<>>
    /\ year' = year + 1
    /\ UNCHANGED <<input_gdf, caltrans_join, footprint_lst, footprint_out, gpc>>
    /\ UNCHANGED nongvars

\* lines 186-249: one pass of the loop body.
ProcessYear ==
    /\ gpc = "loop" /\ year \in Years
    /\ \E year_data \in {SelectSeq(input_gdf, LAMBDA row : row.Year = year)} :
           /\ year_data # <<>>
           /\ \E spaghetti_sauce \in {OverlayIdentity(ExplodeRows(DissolveByTreatment(year_data)),
                                                      own_veg_region_wui)} :
                  /\ caltrans_join' = CaltransOverride(spaghetti_sauce, input_gdf)
                  /\ footprint_lst' = Append(footprint_lst,
                         Dinner(CaltransOverride(spaghetti_sauce, input_gdf),
                                RepresentativePoints(year_data), year))
    /\ year' = year + 1
    /\ UNCHANGED <<input_gdf, footprint_out, gpc>>
    /\ UNCHANGED nongvars

\* lines 251-255: pd.concat of the per-year outputs; of no output it raises.
ReturnFootprint ==
    /\ gpc = "loop" /\ year \notin Years
    /\ IF footprint_lst = <<>>
       THEN gpc' = "error" /\ UNCHANGED footprint_out
       ELSE gpc' = "returned" /\ footprint_out' = FlatConcat(footprint_lst)
    /\ UNCHANGED <<input_gdf, year, caltrans_join, footprint_lst>>
    /\ UNCHANGED nongvars

NextDinner == SkipYear \/ ProcessYear \/ ReturnFootprint

SpecDinner == InitDinner /\ [][NextDinner]_vars

\* ------------------------------------------------ footprint_nop.get_footprint year loop
\* The dissolved layer of a year of the loop: no treatment or one.
YearLayers == {layer \in DissolvedLayers : Len(layer) <= 1}

InitYears ==
    /\ NonYearsIdle
    /\ year_layers \in [Years -> YearLayers]
    /\ cur_y = 1
    /\ saved_footprints = [yy \in Years |-> <<>>]
    /\ ypc = "year"

\* lines 306-341: the year's records are selected and dissolved, and the globals
\* GDF_CUR and INTERSECTION_LIST are set.
YearPrepare ==
    /\ ypc = "year" /\ cur_y \in Years
    /\ GDF_CUR' = year_layers[cur_y]
    /\ INTERSECTION_LIST' = get_interaction_list(year_layers[cur_y])
    /\ ypc' = "pool"
    /\ UNCHANGED <<year_layers, cur_y, saved_footprints>>
    /\ UNCHANGED <<strategy, fpc, dissolved_cur_y, enrich_null, results, completed, original,
                   meatball, spaghetti, footprint, run, first_footprint>>
    /\ UNCHANGED <<jvars, dvars, nvars, rvars, bvars, gvars, cvars, hvars, mvars, kvars, svars, zvars, ivars, vvars, evars, tvars, pvars>>

\* lines 343-350: pool.map over the year's features, and the save of the
\* concatenated results; pd.concat of no result raises and ends the run.
YearPool ==
    /\ ypc = "pool"
    /\ \E year_results \in {[i \in DOMAIN GDF_CUR |-> get_NOP_mp(i)]} :
           IF Len(year_results) = 0
           THEN ypc' = "error" /\ UNCHANGED <<cur_y, saved_footprints>>
           ELSE /\ saved_footprints' =
                       [saved_footprints EXCEPT ![cur_y] = <<FlatConcat(year_results)>>]
                /\ cur_y' = cur_y + 1
                /\ ypc' = "year"
    /\ UNCHANGED year_layers
    /\ UNCHANGED nonyvars

\* The loop has run through every year.
YearsDone ==
    /\ ypc = "year" /\ cur_y \notin Years
    /\ ypc' = "done"
    /\ UNCHANGED <<year_layers, cur_y, saved_footprints>>
    /\ UNCHANGED nonyvars

NextYears == YearPrepare \/ YearPool \/ YearsDone

SpecYears == InitYears /\ [][NextYears]_vars

\* ------------------------------------------------------------ parquet cache
\* The cache paths in the order the run looks them up: the vegetation layer
\* (enrich_polygons 179-188), the chunks (211-221), the ownership layer
\* (footprint_report.get_footprint 172-180).
ReferenceLayers == {"Broad_Vegetation_Types", "Own_Veg_Region_WUI"}

ChunkHashes == {"hash1", "hash2"}

CachePaths == ReferenceLayers \cup ChunkHashes

LookupOrder == <<"Broad_Vegetation_Types", "hash1", "hash2", "Own_Veg_Region_WUI">>

FileStates == {"absent", "valid", "corrupt"}

InitCache ==
    /\ NonCacheIdle
    /\ cache_files \in [CachePaths -> FileStates]
    /\ lookups = LookupOrder
    /\ loaded = {}
    /\ cpc = "run"

\* if os.path.exists(path): data = gpd.read_parquet(path)
\* else: data = <read or compute>; data.to_parquet(path)
\* read_parquet of a corrupt file raises, and no caller catches it.
CacheLookup(path) ==
    /\ cpc = "run" /\ lookups # <<>> /\ Head(lookups) = path
    /\ IF cache_files[path] = "corrupt"
       THEN cpc' = "error" /\ UNCHANGED <<cache_files, lookups, loaded>>
       ELSE /\ cache_files' = [cache_files EXCEPT ![path] = "valid"]
            /\ loaded' = loaded \cup {path}
            /\ lookups' = Tail(lookups)
            /\ cpc' = IF Tail(lookups) = <<>> THEN "done" ELSE "run"
    /\ UNCHANGED noncvars

\* enrich_polygons 179-188
LoadVegLayer == CacheLookup("Broad_Vegetation_Types")

\* enrich_polygons 211-221
EnrichChunk == \E hash \in ChunkHashes : CacheLookup(hash)

\* footprint_report.get_footprint 172-180
LoadOwnVegRegionWui == CacheLookup("Own_Veg_Region_WUI")

NextCache == LoadVegLayer \/ EnrichChunk \/ LoadOwnVegRegionWui

SpecCache == InitCache /\ [][NextCache]_vars

\* ------------------------------------------------- gdf_utils.hash_geodataframe
MaxHashRows == 2

\* A missing attribute value (None, NaN).
NA == "<NA>"

AttributeValues == {NA, "", "CALSTA"}

RowLabels == {0, 1}

HashGeoms == {{1}, {1, 2}}

\* The column names, in sorted order.
SortedColumns == <<"AGENCY", "geometry">>

ColumnOrders == {SortedColumns, <<"geometry", "AGENCY">>}

HashRows == [label : RowLabels, AGENCY : AttributeValues, geometry : HashGeoms]

\* A feature collection: its columns and its rows in stored order, the row
\* labels distinct.
HashGdfs ==
    {[columns |-> cols, rows |-> rows] :
        cols \in ColumnOrders,
        rows \in {s \in UNION {[1..n -> HashRows] : n \in 1..MaxHashRows} :
                     \A i, k \in DOMAIN s : i # k => s[i].label # s[k].label}}

\* line 101: sort_index(axis=0), the rows by label.
SortIndexRows(rows) ==
    LET labels == SetToSortedSeq({rows[i].label : i \in DOMAIN rows})
    IN [k \in DOMAIN labels |-> rows[CHOOSE i \in DOMAIN rows : rows[i].label = labels[k]]]

\* line 101: sort_index(axis=1), the columns by name.
SortIndexColumns(columns) == SelectSeq(SortedColumns, LAMBDA c : c \in Range(columns))

\* geom.wkt (lines 104-106)
Wkt(geom) == IF geom = {1} THEN "POLYGON ((0 0, 1 0, 1 1, 0 1, 0 0))"
             ELSE "POLYGON ((0 0, 2 0, 2 1, 0 1, 0 0))"

\* to_csv writes a missing value as the empty field, and a string as itself.
CsvField(value) == IF value = NA THEN "" ELSE value

\* line 109: the CSV text without the index and without 'geometry', as its
\* lines of fields: the header, then one line per row.
to_csv(columns, rows) ==
    LET kept == SelectSeq(columns, LAMBDA c : c # "geometry") \o <<"geometry_wkt">>
    IN <<kept>> \o
       [i \in DOMAIN rows |->
           [k \in DOMAIN kept |->
               IF kept[k] = "geometry_wkt" THEN Wkt(rows[i].geometry)
               ELSE CsvField(rows[i][kept[k]])]]

\* lines 96-114; sha256 taken as free of collisions, the key is the text hashed.
hash_geodataframe(gdf) == to_csv(SortIndexColumns(gdf.columns), SortIndexRows(gdf.rows))

InitHash ==
    /\ NonHashIdle
    /\ gdf_a \in HashGdfs
    /\ gdf_b \in HashGdfs
    /\ hash_a = <<>> /\ hash_b = <<>>
    /\ hpc = "start"

Hash ==
    /\ hpc = "start"
    /\ hash_a' = hash_geodataframe(gdf_a)
    /\ hash_b' = hash_geodataframe(gdf_b)
    /\ hpc' = "hashed"
    /\ UNCHANGED <<gdf_a, gdf_b>>
    /\ UNCHANGED nonhvars

NextHash == Hash

SpecHash == InitHash /\ [][NextHash]_vars

\* --------------------------------------- standardize_domains and counts_to_mas
\* The record as the enrichment left it; the fields that the model does not
\* standardize are drawn in their standardized form.
RawActivities ==
    [AGENCY : {"CA Natural Resources Agency", "Department of the Interior", "Other", "", NA},
     ADMINISTERING_ORG : {"CAL FIRE", "U.S. Forest Service", "National Park Service",
                          "Other", " ", NA},
     ORG_ADMIN_p : {"CA Air Resources Board", NA},
     ACTIVITY_STATUS : {"Active", "Complete", "Planned"},
     ACTIVITY_DESCRIPTION : {"PILE_BURN", "TBD"},
     ACTIVITY_UOM : {"AC", "EA"},
     ACTIVITY_CAT : {"MECH_HFR", "WATSHD_IMPRV"},
     ACTIVITY_END : {2019, 2021},
     COUNTS_TO_MAS : {NA}]

\* standardize_domains.py lines 7-27
update_agency_field(agency) ==
    CASE agency = "CA Natural Resources Agency" -> "CNRA"
      [] agency = "Department of the Interior" -> "DOI"
      [] agency = "Other" -> "OTHER"
      [] agency \in {"", " "} -> NA
      [] OTHER -> agency

\* The entries of org_mapping (lines 31-64) for the organisations drawn.
org_mapping ==
    [org \in {"CAL FIRE", "U.S. Forest Service", "National Park Service",
              "CA Air Resources Board", "Other"} |->
        CASE org = "CAL FIRE" -> "CALFIRE"
          [] org = "U.S. Forest Service" -> "USFS"
          [] org = "National Park Service" -> "NPS"
          [] org = "CA Air Resources Board" -> "CARB"
          [] org = "Other" -> "OTHER"]

\* lines 66-68
update_org_field(org) ==
    IF org = NA THEN NA
    ELSE IF org \in DOMAIN org_mapping THEN org_mapping[org]
    ELSE IF org \in {"", " "} THEN NA
    ELSE org

\* lines 562-578
update_activity_status(stat) ==
    CASE stat \in {"Active", "Active*"} -> "ACTIVE"
      [] stat = "Complete" -> "COMPLETE"
      [] stat = "Planned" -> "PLANNED"
      [] stat \in {"", " "} -> NA
      [] OTHER -> stat

\* start_year .. end_year of counts_to_mas
YearRange == 2020..2022

qualifying_activities == {"BIOMASS_REMOVAL", "BROADCAST_BURN", "PILE_BURN", "THIN_MAN"}

excluded_statuses == {"CANCELLED", "PLANNED", "OUTYEAR", "PROPOSED"}

excluded_agencies == {"BOF", "CCC", "SMMC", "SNC", "SCC", "SDRC", "MRCA", "RMC", "OTHER"}

\* counts_to_mas.py lines 30-68; a comparison with a missing value is false.
final_mask(r) ==
    /\ r.ACTIVITY_END \in YearRange
    /\ r.ACTIVITY_DESCRIPTION \in qualifying_activities
    /\ r.ACTIVITY_UOM = "AC"
    /\ r.ACTIVITY_STATUS \notin excluded_statuses
    /\ r.ACTIVITY_CAT # "WATSHD_IMPRV"
    /\ ~ (r.AGENCY = "OTHER" /\ r.ORG_ADMIN_p = "CARB")
    /\ ~ (r.ADMINISTERING_ORG = "USFS" /\ r.ACTIVITY_STATUS = "ACTIVE")
    /\ r.ADMINISTERING_ORG \notin excluded_agencies

InitCounts ==
    /\ NonCountsIdle
    /\ activity \in RawActivities
    /\ mpc = "enriched"

standardize_domains ==
    /\ mpc = "enriched"
    /\ activity' = [activity EXCEPT !.AGENCY = update_agency_field(@),
                                    !.ORG_ADMIN_p = update_org_field(@),
                                    !.ADMINISTERING_ORG = update_org_field(@),
                                    !.ACTIVITY_STATUS = update_activity_status(@)]
    /\ mpc' = "standardized"
    /\ UNCHANGED nonmvars

counts_to_mas ==
    /\ mpc = "standardized"
    /\ activity' = [activity EXCEPT !.COUNTS_TO_MAS = IF final_mask(activity) THEN "YES" ELSE "NO"]
    /\ mpc' = "counted"
    /\ UNCHANGED nonmvars

NextCounts == standardize_domains \/ counts_to_mas

SpecCounts == InitCounts /\ [][NextCounts]_vars

\* ------------------------------------- categorize_activity, standardize_domains
\* category.py lines 26-29
direct_activities ==
    {"MECH_HFR", "BENEFICIAL_FIRE", "GRAZING", "LAND_PROTEC", "TIMB_HARV", "TREE_PLNTING",
     "WATSHD_IMPRV"}

\* lines 34-40
mech_hfr_activities ==
    {"BIOMASS_REMOVAL", "CHIPPING", "CHAIN_CRUSH", "DISCING", "DOZER_LINE", "HANDLINE",
     "LANDING_TRT", "LOP_AND_SCAT", "MASTICATION", "MOWING", "PILE_BURN", "PILING", "PRUNING",
     "ROAD_CLEAR", "SLASH_DISPOSAL", "THIN_MAN", "THIN_MECH", "TREE_RELEASE_WEED", "TREE_FELL",
     "UTIL_RIGHTOFWAY_CLR", "YARDING"}

\* lines 45-52
timber_harvest_activities ==
    {"CLEARCUT", "COMM_THIN", "CONVERSION", "GRP_SELECTION_HARVEST", "REHAB_UNDRSTK_AREA",
     "SEED_TREE_PREP_STEP", "SEED_TREE_REM_STEP", "SEED_TREE_SEED_STEP", "SHELTERWD_PREP_STEP",
     "SHELTERWD_REM_STEP", "SHELTERWD_SEED_STEP", "SINGLE_TREE_SELECTION", "SP_PRODUCTS",
     "TRANSITION_HARVEST", "VARIABLE_RETEN_HARVEST", "SALVG_HARVEST", "SANI_HARVEST"}

\* lines 66-71
watershed_objectives ==
    {"BURNED_AREA_RESTOR", "CARBON_STORAGE", "ECO_RESTOR", "HABITAT_RESTOR",
     "INV_SPECIES_CNTRL", "LAND_PROTECTION", "MTN_MEADOW_RESTOR", "RIPARIAN_RESTOR",
     "WATSHD_RESTOR", "WETLAND_RESTOR"}

\* lines 75-78
tree_planting_objectives ==
    {"FOREST_PEST_CNTRL", "FOREST_STEWARDSHIP", "OTHER_FOREST_MGMT", "REFORESTATION",
     "SITE_PREP"}

\* lines 82-87
mech_hfr_objectives ==
    {"BIOMASS_UTIL", "CULTURAL_BURN", "FIRE_PREVENTION", "FUEL_BREAK", "NON-TIMB_PRODUCTS",
     "OTHER_FUELS_REDUCTION", "PRESCRB_FIRE", "RECREATION", "ROADWAY_CLEARANCE",
     "TIMBER_HARVEST", "UTIL_RIGHT_OF_WAY"}

\* lines 20-116
classify_activity(r) ==
    LET Act == r.ACTIVITY_DESCRIPTION
        Veg == r.BROAD_VEGETATION_TYPE
        Obj == r.PRIMARY_OBJECTIVE
    IN CASE Act \in direct_activities -> Act
         [] Act \in mech_hfr_activities -> "MECH_HFR"
         [] Act \in timber_harvest_activities -> "TIMB_HARV"
         [] Act = "PEST_CNTRL" -> IF Veg = "FOREST" THEN "SANI_SALVG" ELSE "WATSHD_IMPRV"
         [] Act \in {"INV_PLANT_REMOVAL", "ECO_HAB_RESTORATION"} -> "WATSHD_IMPRV"
         [] Act = "HERBICIDE_APP" /\ Obj \in watershed_objectives -> "WATSHD_IMPRV"
         [] Act = "HERBICIDE_APP" /\ Obj \in tree_planting_objectives -> "TREE_PLNTING"
         [] Act = "HERBICIDE_APP" /\ Obj \in mech_hfr_objectives -> "MECH_HFR"
         [] Act \in {"SITE_PREP", "TREE_PLNTING", "TREE_SEEDING"} -> "TREE_PLNTING"
         [] Act \in {"BROADCAST_BURN", "PL_TREAT_BURNED", "WM_RESRC_BENEFIT"} -> "BENEFICIAL_FIRE"
         [] Act = "PRESCRB_HERBIVORY" -> "GRAZING"
         [] Act \in {"EASEMENT", "FEE_TITLE", "LAND_ACQ"} -> "LAND_PROTEC"
         [] Act \in {"AMW_AREA_RESTOR", "EROSION_CONTROL", "HABITAT_REVEG", "OAK_WDLND_MGMT",
                     "ROAD_OBLITERATION", "SEEDBED_PREP", "STREAM_CHNL_IMPRV",
                     "WETLAND_RESTOR"} -> "WATSHD_IMPRV"
         [] OTHER -> "NOT_DEFINED"

\* standardize_domains.py lines 354-371: the codes that update_activity_description keeps.
valid_activity_descriptions ==
    {"AMW_AREA_RESTOR", "BIOMASS_REMOVAL", "BROADCAST_BURN", "CHAIN_CRUSH", "CHIPPING",
     "CLEARCUT", "COMM_THIN", "CONVERSION", "DISCING", "DOZER_LINE", "EASEMENT",
     "ECO_HAB_RESTORATION", "EROSION_CONTROL", "FEE_TITLE", "GRP_SELECTION_HARVEST",
     "HABITAT_REVEG", "HANDLINE", "HERBICIDE_APP", "INV_PLANT_REMOVAL", "LAND_ACQ",
     "LANDING_TRT", "LOP_AND_SCAT", "MASTICATION", "MOWING", "NONCOM_THIN_MAN",
     "NONCOM_THIN_MECH", "NOT_DEFINED", "OAK_WDLND_MGMT", "PEST_CNTRL", "PILE_BURN", "PILING",
     "PL_TREAT_BURNED", "PRESCRB_HERBIVORY", "PRUNING", "REHAB_UNDRSTK_AREA", "ROAD_CLEAR",
     "ROAD_OBLITERATION", "SALVG_HARVEST", "SANI_HARVEST", "SEED_TREE_PREP_STEP",
     "SEED_TREE_REM_STEP", "SEED_TREE_SEED_STEP", "SEEDBED_PREP", "SHELTERWD_PREP_STEP",
     "SHELTERWD_REM_STEP", "SHELTERWD_SEED_STEP", "SINGLE_TREE_SELECTION", "SITE_PREP",
     "SLASH_DISPOSAL", "SP_PRODUCTS", "STREAM_CHNL_IMPRV", "THIN_MAN", "THIN_MECH",
     "TRANSITION_HARVEST", "TREE_FELL", "TREE_PLNTING", "TREE_RELEASE_WEED", "TREE_SEEDING",
     "UTIL_RIGHTOFWAY_CLR", "VARIABLE_RETEN_HARVEST", "WETLAND_RESTOR", "WM_RESRC_BENEFIT",
     "YARDING"}

\* lines 349-496, with the free-text names drawn by the model.
update_activity_description(act) ==
    CASE act = NA -> "TBD"
      [] act \in valid_activity_descriptions -> act
      [] act = "Herbicide Application" -> "HERBICIDE_APP"
      [] act = "Mastication" -> "MASTICATION"
      [] OTHER -> "TBD"

\* lines 499-517
update_activity_cat(Cat) ==
    CASE Cat = "Mechanical and Hand Fuels Reduction" -> "MECH_HFR"
      [] Cat = "Beneficial Fire" -> "BENEFICIAL_FIRE"
      [] Cat = "Grazing" -> "GRAZING"
      [] Cat = "Land Protection" -> "LAND_PROTEC"
      [] Cat \in {"Timber Harvest", "SANI_SALVG", "Sanitation & Salvage"} -> "TIMB_HARV"
      [] Cat = "Tree Planting" -> "TREE_PLNTING"
      [] Cat = "Watershed & Habitat Improvement" -> "WATSHD_IMPRV"
      [] Cat \in {"Not Defined", "", " "} -> "NOT_DEFINED"
      [] OTHER -> Cat

\* The record handed to categorize_activity.
CrosswalkRows ==
    [ACTIVITY_DESCRIPTION : {"PILE_BURN", "PEST_CNTRL", "HERBICIDE_APP", "NONCOM_THIN_MAN",
                             "Mastication", "NOT_DEFINED", "TBD", "Unlisted activity", NA},
     BROAD_VEGETATION_TYPE : {"FOREST", "SHRB_CHAP"},
     PRIMARY_OBJECTIVE : {"ECO_RESTOR", "REFORESTATION", "FUEL_BREAK", "TBD", NA},
     ACTIVITY_CAT : {NA}]

InitCategory ==
    /\ NonCategoryIdle
    /\ crosswalk_row \in CrosswalkRows
    /\ kpc = "joined"

\* category.py lines 119-124
categorize_activity ==
    /\ kpc = "joined"
    /\ crosswalk_row' = [crosswalk_row EXCEPT !.ACTIVITY_CAT = classify_activity(crosswalk_row)]
    /\ kpc' = "categorized"
    /\ UNCHANGED nonkvars

\* standardize_domains.py lines 699-700, the columns of the activity.
StandardizeActivity ==
    /\ kpc = "categorized"
    /\ crosswalk_row' = [crosswalk_row EXCEPT
                            !.ACTIVITY_DESCRIPTION = update_activity_description(@),
                            !.ACTIVITY_CAT = update_activity_cat(@)]
    /\ kpc' = "standardized"
    /\ UNCHANGED nonkvars

NextCategory == categorize_activity \/ StandardizeActivity

SpecCategory == InitCategory /\ [][NextCategory]_vars

\* ------------------------------------------------ dissolve by treatment
DissolveTreatmentIds == {1, 2}

FeatureCounts == {1, 2}

\* A normalized feature of the year: a polygon, a buffered point, or a buffered line.
YearFeatures ==
    [TRMTID_USER : DissolveTreatmentIds, ACTIVITY_QUANTITY : Quantities, geometry : Geoms,
     kind : {"polygon", "line"}]

MaxOf(S) == CHOOSE q \in S : \A p \in S : p <= q

\* GeoDataFrame.dissolve(by='TRMTID_USER', aggfunc=...): one row per treatment,
\* in treatment order; the geometry is the union of the group, the quantity is
\* aggregated with 'max', or with 'first' (the default): the value of the
\* group's first row in stored order.
dissolve(rows, aggfunc) ==
    LET ids == SetToSortedSeq({rows[k].TRMTID_USER : k \in DOMAIN rows})
    IN [n \in DOMAIN ids |->
           LET group == SelectSeq(rows, LAMBDA row : row.TRMTID_USER = ids[n])
           IN [TRMTID_USER |-> ids[n],
               ACTIVITY_QUANTITY |->
                   IF aggfunc = "max"
                   THEN MaxOf({group[k].ACTIVITY_QUANTITY : k \in DOMAIN group})
                   ELSE group[1].ACTIVITY_QUANTITY,
               geometry |-> UNION {group[k].geometry : k \in DOMAIN group}]]

InitDissolve ==
    /\ NonDissolveIdle
    /\ variant \in {"nop", "p2", "report"}
    /\ year_features \in UNION {[1..n -> YearFeatures] : n \in FeatureCounts}
    /\ dissolved = <<>>
    /\ spc = "year"

\* footprint_nop.get_footprint lines 319-323: polygons, lines and points
\* together, aggfunc='max'.
DissolveNop ==
    /\ spc = "year" /\ variant = "nop"
    /\ dissolved' = dissolve(year_features, "max")
    /\ spc' = "dissolved"
    /\ UNCHANGED <<variant, year_features>>
    /\ UNCHANGED nonsvars

\* footprint.get_footprint lines 237 and 265-271: polygons and points only
\* (the lines are dissolved apart, lines 245-255), aggfunc='max'.
DissolveP2 ==
    /\ spc = "year" /\ variant = "p2"
    /\ dissolved' = dissolve(SelectSeq(year_features, LAMBDA row : row.kind # "line"), "max")
    /\ spc' = "dissolved"
    /\ UNCHANGED <<variant, year_features>>
    /\ UNCHANGED nonsvars

\* footprint_report.get_footprint lines 201-202: dissolve(by='TRMTID_USER')
\* with the default aggfunc.
DissolveReport ==
    /\ spc = "year" /\ variant = "report"
    /\ dissolved' = dissolve(year_features, "first")
    /\ spc' = "dissolved"
    /\ UNCHANGED <<variant, year_features>>
    /\ UNCHANGED nonsvars

NextDissolve == DissolveNop \/ DissolveP2 \/ DissolveReport

SpecDissolve == InitDissolve /\ [][NextDissolve]_vars

\* --------------------------------------------------- update_pt and update_ln
NormalizeCounts == {0, 1, 2}

\* A quantity, and a BufferMeters value, is None or <<number>>.  Lengths are in
\* centimetres; no record has Source CalTrans or CALTRANS.
EnrichedRecords ==
    [COUNTS_TO_MAS : {"YES", "NO"},
     ACTIVITY_UOM : {"AC", "ac", "EA"},
     ACTIVITY_QUANTITY : {None, <<0 - 5>>, <<0>>, <<5>>},
     length : {0, 10000},
     geometry : {"source"},
     BufferMeters : {None}]

\* .str.upper()
Upper(uom) == IF uom = "ac" THEN "AC" ELSE uom

\* footprint_nop.update_pt lines 66-70: BufferMeters of the rows of mask1; the
\* square root of a negative number is NaN.
PointBufferColumn(points) ==
    [k \in DOMAIN points |->
        [points[k] EXCEPT !.BufferMeters =
            IF points[k].ACTIVITY_QUANTITY # None /\ points[k].ACTIVITY_UOM = "AC"
            THEN IF points[k].ACTIVITY_QUANTITY[1] < 0 THEN None
                 ELSE <<PointBufferMeters(points[k].ACTIVITY_QUANTITY[1])>>
            ELSE None]]

\* footprint_nop.update_pt lines 58-91
nop_update_pt(points) ==
    LET selected_points == SelectSeq(PointBufferColumn(points),
            LAMBDA row : /\ row.COUNTS_TO_MAS = "YES"
                         /\ row.BufferMeters # None
                         /\ row.BufferMeters[1] > 0)
    IN [k \in DOMAIN selected_points |-> [selected_points[k] EXCEPT !.geometry = "polygon"]]

\* update_ln, mask1: a quantity, the unit AC in any case, a positive length.
LineMask1(row) ==
    row.ACTIVITY_QUANTITY # None /\ Upper(row.ACTIVITY_UOM) = "AC" /\ row.length > 0

\* update_ln: BufferMeters of the rows of mask1.
LineBufferColumn(lines) ==
    [k \in DOMAIN lines |->
        [lines[k] EXCEPT !.BufferMeters =
            IF LineMask1(lines[k])
            THEN <<LineBufferMeters(lines[k].ACTIVITY_QUANTITY[1], lines[k].length)>>
            ELSE None]]

\* geometry.buffer(distance) of a line: empty unless the distance is positive.
LineBuffer(distance) == IF distance > 0 THEN "polygon" ELSE "empty"

\* footprint_nop.update_ln lines 94-158: no row in mask1 returns the empty
\* collection; condition3 asks for YES and a BufferMeters value.
nop_update_ln(lines) ==
    IF \A k \in DOMAIN lines : ~ LineMask1(lines[k]) THEN <<>>
    ELSE LET selected_lines == SelectSeq(LineBufferColumn(lines),
                 LAMBDA row : row.COUNTS_TO_MAS = "YES" /\ row.BufferMeters # None)
         IN [k \in DOMAIN selected_lines |->
                [selected_lines[k] EXCEPT !.geometry = LineBuffer(selected_lines[k].BufferMeters[1])]]

\* footprint_report.update_ln lines 75-133: condition3 asks for YES only, and a
\* row with no BufferMeters keeps its geometry.
report_update_ln(lines) ==
    IF \A k \in DOMAIN lines : ~ LineMask1(lines[k]) THEN <<>>
    ELSE LET selected_lines == SelectSeq(LineBufferColumn(lines),
                 LAMBDA row : row.COUNTS_TO_MAS = "YES")
         IN [k \in DOMAIN selected_lines |->
                [selected_lines[k] EXCEPT !.geometry =
                    IF selected_lines[k].BufferMeters # None
                    THEN LineBuffer(selected_lines[k].BufferMeters[1])
                    ELSE selected_lines[k].geometry]]

InitNormalize ==
    /\ NonNormalizeIdle
    /\ norm_module \in {"footprint_nop", "footprint_report"}
    /\ norm_kind \in {"point", "line"}
    /\ norm_module = "footprint_report" => norm_kind = "line"
    /\ norm_input \in UNION {[1..n -> EnrichedRecords] : n \in NormalizeCounts}
    /\ norm_output = <<>>
    /\ zpc = "enriched"

NormalizePoints ==
    /\ zpc = "enriched" /\ norm_kind = "point"
    /\ norm_output' = nop_update_pt(norm_input)
    /\ zpc' = "normalized"
    /\ UNCHANGED <<norm_module, norm_kind, norm_input>>
    /\ UNCHANGED nonzvars

NormalizeLines ==
    /\ zpc = "enriched" /\ norm_kind = "line"
    /\ norm_output' = IF norm_module = "footprint_nop" THEN nop_update_ln(norm_input)
                      ELSE report_update_ln(norm_input)
    /\ zpc' = "normalized"
    /\ UNCHANGED <<norm_module, norm_kind, norm_input>>
    /\ UNCHANGED nonzvars

NextNormalize == NormalizePoints \/ NormalizeLines

SpecNormalize == InitNormalize /\ [][NextNormalize]_vars

\* ------------------------------------------------------ get_interaction_list
\* Geometries on a row of five cells: a two-part geometry whose bounding box
\* holds features that it does not meet.
InteractionGeoms == {{1}, {3}, {5}, {1, 5}, {2, 3}, {4, 5}}

InteractionSizes == {1, 2, 3}

InitInteraction ==
    /\ NonInteractionIdle
    /\ inter_gdf \in UNION {[1..n -> [geometry : InteractionGeoms]] : n \in InteractionSizes}
    /\ interaction_list = <<>>
    /\ ipc = "start"

GetInteractionList ==
    /\ ipc = "start"
    /\ interaction_list' = get_interaction_list(inter_gdf)
    /\ ipc' = "listed"
    /\ UNCHANGED inter_gdf
    /\ UNCHANGED nonivars

NextInteraction == GetInteractionList

SpecInteraction == InitInteraction /\ [][NextInteraction]_vars

\* ------------------------------------------- validity ahead of decomposition
ValidityCounts == {1, 2, 3}

InitValidity ==
    /\ NonValidityIdle
    /\ valid_variant \in {"nop", "p2", "report"}
    /\ year_validity \in UNION {[1..n -> {"valid", "invalid"}] : n \in ValidityCounts}
    /\ handed = <<>>
    /\ vpc = "year"

\* dissolve by treatment (footprint_nop.py 323, footprint.py 267,
\* footprint_report.py 202) runs on the geometries as they are: the union of an
\* invalid geometry returns a geometry or raises a topology exception, which
\* nothing catches.
DissolveUnrepaired ==
    /\ vpc = "year"
    /\ \/ vpc' = "dissolved"
       \/ (\E k \in DOMAIN year_validity : year_validity[k] = "invalid") /\ vpc' = "error"
    /\ UNCHANGED <<valid_variant, year_validity, handed>>
    /\ UNCHANGED nonvvars

\* dissolved_cur_y.make_valid() (footprint_nop.py 332, footprint.py 276): every
\* geometry comes out valid, or the repair raises, which nothing catches.
MakeValid ==
    /\ vpc = "dissolved" /\ valid_variant \in {"nop", "p2"}
    /\ \/ /\ year_validity' = [k \in DOMAIN year_validity |-> "valid"]
          /\ vpc' = "repaired"
       \/ /\ \E k \in DOMAIN year_validity : year_validity[k] = "invalid"
          /\ vpc' = "error"
          /\ UNCHANGED year_validity
    /\ UNCHANGED <<valid_variant, handed>>
    /\ UNCHANGED nonvvars

\* The repaired layer goes to the decomposition: the pool of get_NOP_mp
\* (footprint_nop.py 337-345), FeatureToPolygon on the saved layer
\* (footprint.py 286, 303).
HandToDecomposition ==
    /\ vpc = "repaired"
    /\ handed' = year_validity
    /\ vpc' = "decomposed"
    /\ UNCHANGED <<valid_variant, year_validity>>
    /\ UNCHANGED nonvvars

\* footprint_report.py 205-215: no repair; gpd.overlay(..., how='identity') is
\* called with its default make_valid=True, which repairs the invalid inputs
\* inside the call, or raises.
OverlayUnrepaired ==
    /\ vpc = "dissolved" /\ valid_variant = "report"
    /\ \/ /\ handed' = [k \in DOMAIN year_validity |-> "valid"]
          /\ vpc' = "decomposed"
       \/ /\ \E k \in DOMAIN year_validity : year_validity[k] = "invalid"
          /\ vpc' = "error"
          /\ UNCHANGED handed
    /\ UNCHANGED <<valid_variant, year_validity>>
    /\ UNCHANGED nonvvars

NextValidity == DissolveUnrepaired \/ MakeValid \/ HandToDecomposition \/ OverlayUnrepaired

SpecValidity == InitValidity /\ [][NextValidity]_vars

\* --------------------------------------------- enrich_polygons chunk cache
\* The versions of the reference vegetation layer.
LayerVersions == {1, 2}

\* The contents a chunk can have; "a" and "a_blank" differ in one attribute
\* value that hash_geodataframe does not tell apart.
ChunkContents == {"a", "a_blank", "b"}

\* hash_geodataframe(chunk)
ChunkHash(content) == IF content = "b" THEN "hash_b" ELSE "hash_a"

CacheHashes == {ChunkHash(content) : content \in ChunkContents}

\* A cache file: absent, corrupt, or the enrichment of a chunk content against
\* a version of the layer.
AbsentFile == [state |-> "absent", content |-> "", version |-> 0]

CorruptFile == [state |-> "corrupt", content |-> "", version |-> 0]

\* summarize_within(chunk, veg_layer)
summarize_within(content, layer) == [state |-> "valid", content |-> content, version |-> layer]

StoreSkipped(cache, hash, enriched_chunk) == cache

\* enriched_chunk.to_parquet(f"cache/{hash}.parquet")
StoreChunk(cache, hash, enriched_chunk) == [cache EXCEPT ![hash] = enriched_chunk]

EnrichInputs == [1..2 -> ChunkContents]

InitEnrich ==
    /\ NonEnrichIdle
    /\ ref_source = 1
    /\ veg_cache = 0
    /\ chunk_cache \in [CacheHashes -> {AbsentFile, CorruptFile}]
    /\ enrich_chunks \in EnrichInputs
    /\ veg_layer = 0
    /\ enriched_list = <<>>
    /\ summarized = [i \in 1..2 |-> 0]
    /\ run_no = 1
    /\ first_run = <<>>
    /\ epc = "start"

\* lines 179-188: the layer comes from the cache file when it exists, from the
\* source otherwise, and is then cached.
EnrichLoadVegLayer ==
    /\ epc = "start"
    /\ IF veg_cache # 0
       THEN veg_layer' = veg_cache /\ UNCHANGED veg_cache
       ELSE veg_layer' = ref_source /\ veg_cache' = ref_source
    /\ epc' = "chunks"
    /\ UNCHANGED <<ref_source, chunk_cache, enrich_chunks, enriched_list, summarized, run_no,
                   first_run>>
    /\ UNCHANGED nonevars

\* lines 209-221: one pass of the loop over the chunks.
EnrichNextChunk ==
    /\ epc = "chunks" /\ Len(enriched_list) < Len(enrich_chunks)
    /\ \E index \in {Len(enriched_list) + 1} :
       \E hash \in {ChunkHash(enrich_chunks[index])} :
           IF chunk_cache[hash].state = "corrupt"
           THEN /\ epc' = "error"
                /\ UNCHANGED <<chunk_cache, enriched_list, summarized>>
           ELSE IF chunk_cache[hash].state = "valid"
           THEN /\ enriched_list' = Append(enriched_list, chunk_cache[hash])
                /\ UNCHANGED <<chunk_cache, summarized, epc>>
           ELSE \E enriched_chunk \in {summarize_within(enrich_chunks[index], veg_layer)} :
                /\ summarized' = [summarized EXCEPT ![index] = @ + 1]
                /\ chunk_cache' = StoreChunk(chunk_cache, hash, enriched_chunk)
                /\ enriched_list' = Append(enriched_list, enriched_chunk)
                /\ UNCHANGED epc
    /\ UNCHANGED <<ref_source, veg_cache, enrich_chunks, veg_layer, run_no, first_run>>
    /\ UNCHANGED nonevars

\* lines 224-227: the chunks are concatenated.
EnrichConcat ==
    /\ epc = "chunks" /\ Len(enriched_list) = Len(enrich_chunks)
    /\ epc' = "done"
    /\ UNCHANGED <<ref_source, veg_cache, chunk_cache, enrich_chunks, veg_layer, enriched_list,
                   summarized, run_no, first_run>>
    /\ UNCHANGED nonevars

\* The program is run again with the same cache directory; the input and the
\* reference layer at the source are the same or have changed.
EnrichSecondRun ==
    /\ epc = "done" /\ run_no = 1
    /\ first_run' = <<enrich_chunks, ref_source>>
    /\ run_no' = 2
    /\ enrich_chunks' \in EnrichInputs
    /\ ref_source' \in LayerVersions
    /\ veg_layer' = 0
    /\ enriched_list' = <<>>
    /\ summarized' = [i \in 1..2 |-> 0]
    /\ epc' = "start"
    /\ UNCHANGED <<veg_cache, chunk_cache>>
    /\ UNCHANGED nonevars

NextEnrich == EnrichLoadVegLayer \/ EnrichNextChunk \/ EnrichConcat \/ EnrichSecondRun

SpecEnrich == InitEnrich /\ [][NextEnrich]_vars

\* ------------------------------------------------------------ recursion machine
\* get_NOP_mp and the calls of get_NOP_recur it sets off, one call frame at a
\* time: call_stack holds the live calls of get_NOP_recur, outermost first.

RecurCells == {1, 2, 3}
RecurGeoms == (SUBSET RecurCells) \ {{}}
RecurSizes == {0, 1, 2, 3}

\* lines 251-258: temp_nop = pd.concat([intersection, difference]), polygons only.
TempNop(gdf1, gdf2) ==
    LET intersection == SelectSeq([k \in DOMAIN gdf2 |-> gdf1 \cap gdf2[k]],
                                  LAMBDA g : g # {})
        rest == gdf1 \ UNION Range(gdf2)
        difference == IF rest # {} THEN <<rest>> ELSE <<>>
    IN intersection \o difference

\* The rows handed down with row i, were row i left among them.
AllRows(temp_nop, i) == temp_nop

\* line 262: pd.concat([temp_nop.iloc[0:i], temp_nop.iloc[i+1:]])
OtherRows(temp_nop, i) == RemoveAt(temp_nop, i)

\* A call of get_NOP_recur(gdf1, gdf2) that has computed temp_nop and is about
\* to evaluate element i of the list comprehension of lines 261-262.
Frame(gdf1, gdf2) ==
    [gdf1 |-> gdf1, gdf2 |-> gdf2, temp_nop |-> TempNop(gdf1, gdf2), i |-> 1]

InitRecur ==
    /\ NonRecurIdle
    /\ recur_target \in RecurGeoms
    /\ recur_neighbors \in UNION {[1..n -> RecurGeoms] : n \in RecurSizes}
    /\ call_stack = <<>>
    /\ max_depth = 0
    /\ tpc = "called"

\* get_NOP_mp, lines 266-270: no neighbors, the feature itself is returned;
\* otherwise get_NOP_recur(GDF_CUR.iloc[[i]], INTERSECTION_LIST[i]) is called.
GetNopMp ==
    /\ tpc = "called"
    /\ IF Len(recur_neighbors) = 0
       THEN /\ call_stack' = <<>>
            /\ max_depth' = 0
            /\ tpc' = "returned"
       ELSE /\ call_stack' = <<Frame(recur_target, recur_neighbors)>>
            /\ max_depth' = 1
            /\ tpc' = "recursing"
    /\ UNCHANGED <<recur_target, recur_neighbors>>
    /\ UNCHANGED nontvars

\* lines 261-262: element i of the comprehension calls get_NOP_recur on row i
\* and the other rows of temp_nop.
RecurDescend ==
    /\ tpc = "recursing"
    /\ \E top \in {call_stack[Len(call_stack)]} :
          /\ Len(top.temp_nop) > 1
          /\ top.i <= Len(top.temp_nop)
          /\ call_stack' = Append(call_stack,
                                  Frame(top.temp_nop[top.i], OtherRows(top.temp_nop, top.i)))
    /\ max_depth' = IF Len(call_stack') > max_depth THEN Len(call_stack') ELSE max_depth
    /\ UNCHANGED <<recur_target, recur_neighbors, tpc>>
    /\ UNCHANGED nontvars

\* lines 259-260 (return [gdf1]) and the end of the comprehension of lines
\* 261-262: the call returns and its caller moves to the next element; the
\* outermost return hands the list to get_NOP_mp (lines 271-277).
RecurReturn ==
    /\ tpc = "recursing"
    /\ \E top \in {call_stack[Len(call_stack)]} :
          \/ Len(top.temp_nop) <= 1
          \/ top.i > Len(top.temp_nop)
    /\ \E below \in {SubSeq(call_stack, 1, Len(call_stack) - 1)} :
          IF below = <<>>
          THEN /\ call_stack' = <<>>
               /\ tpc' = "returned"
          ELSE /\ call_stack' = [below EXCEPT ![Len(below)].i = @ + 1]
               /\ tpc' = "recursing"
    /\ UNCHANGED <<recur_target, recur_neighbors, max_depth>>
    /\ UNCHANGED nontvars

NextRecur == GetNopMp \/ RecurDescend \/ RecurReturn

SpecRecur == InitRecur /\ [][NextRecur]_vars

\* The interpreter runs a started call to its end.
SpecRecurFair == SpecRecur /\ WF_vars(NextRecur)

\* ------------------------------------------------------------ concurrent calls machine
\* Two calls of concurrent_join in one machine's /tmp, each with its own pool.
\* A file is a pair <<n, c>>: /tmp/chunk_result_<n>.gpkg as written by call c.

JoinCalls == {1, 2}
CallChunkCounts == {1, 2}

\* line 44: output_file = f"/tmp/chunk_result_{index+1}.gpkg"
OutputFile(index) == index + 1

\* result.to_file(output_file): the file at that path is replaced.
ToFile(files, n, c) == {f \in files : f[1] # n} \cup {<<n, c>>}

CallIndexes(c) == 0..(call_chunks[c] - 1)

CallFinished(c) == \A i \in CallIndexes(c) : call_task[c][i] \in {"done", "raised"}

InitCalls ==
    /\ NonCallsIdle
    /\ call_chunks \in [JoinCalls -> CallChunkCounts]
    /\ call_state = [c \in JoinCalls |-> "idle"]
    /\ call_task = [c \in JoinCalls |-> [i \in CallIndexes(c) |-> "unsubmitted"]]
    /\ shared_tmp = {}
    /\ call_k = [c \in JoinCalls |-> 0]
    /\ call_read = [c \in JoinCalls |-> <<>>]

\* lines 56-65: the chunks are split and one task per chunk is submitted.
ConcurrentJoin(c) ==
    /\ call_state[c] = "idle"
    /\ call_state' = [call_state EXCEPT ![c] = "collecting"]
    /\ call_task' = [call_task EXCEPT ![c] = [i \in CallIndexes(c) |-> "submitted"]]
    /\ UNCHANGED <<call_chunks, shared_tmp, call_k, call_read>>
    /\ UNCHANGED nonpvars

\* lines 38-41: a worker of the call's pool takes the task up.
PerformStart(c, i) ==
    /\ call_state[c] = "collecting"
    /\ call_task[c][i] = "submitted"
    /\ call_task' = [call_task EXCEPT ![c][i] = "running"]
    /\ UNCHANGED <<call_chunks, call_state, shared_tmp, call_k, call_read>>
    /\ UNCHANGED nonpvars

\* lines 44-47: the partial result is written and its path returned.
PerformWrite(c, i) ==
    /\ call_task[c][i] = "running"
    /\ shared_tmp' = ToFile(shared_tmp, OutputFile(i), c)
    /\ call_task' = [call_task EXCEPT ![c][i] = "done"]
    /\ UNCHANGED <<call_chunks, call_state, call_k, call_read>>
    /\ UNCHANGED nonpvars

\* lines 48-50: the join or the write fails; nothing is written.
PerformRaise(c, i) ==
    /\ call_task[c][i] = "running"
    /\ call_task' = [call_task EXCEPT ![c][i] = "raised"]
    /\ UNCHANGED <<call_chunks, call_state, shared_tmp, call_k, call_read>>
    /\ UNCHANGED nonpvars

\* lines 66-75: every future is waited for; line 75 re-raises a task's
\* exception, which leaves the with-block for the finally clause.
CollectAll(c) ==
    /\ call_state[c] = "collecting"
    /\ CallFinished(c)
    /\ call_state' = [call_state EXCEPT ![c] =
           IF \E i \in CallIndexes(c) : call_task[c][i] = "raised"
           THEN "finally" ELSE "combining"]
    /\ call_k' = [call_k EXCEPT ![c] = 1]
    /\ UNCHANGED <<call_chunks, call_task, shared_tmp, call_read>>
    /\ UNCHANGED nonpvars

\* lines 78-83: gpd.read_file of the next result file; a missing file raises
\* and leaves the loop for the finally clause.
CombineNext(c) ==
    /\ call_state[c] = "combining"
    /\ IF call_k[c] > call_chunks[c]
       THEN /\ call_state' = [call_state EXCEPT ![c] = "finally"]
            /\ UNCHANGED <<call_k, call_read>>
       ELSE IF \E f \in shared_tmp : f[1] = OutputFile(call_k[c] - 1)
            THEN /\ \E f \in {g \in shared_tmp : g[1] = OutputFile(call_k[c] - 1)} :
                       call_read' = [call_read EXCEPT ![c] = Append(@, f)]
                 /\ call_k' = [call_k EXCEPT ![c] = @ + 1]
                 /\ UNCHANGED call_state
            ELSE /\ call_state' = [call_state EXCEPT ![c] = "finally"]
                 /\ UNCHANGED <<call_k, call_read>>
    /\ UNCHANGED <<call_chunks, call_task, shared_tmp>>
    /\ UNCHANGED nonpvars

\* lines 88-92: executor.shutdown(wait=True), then cleanup_parquet_files().
CallFinally(c) ==
    /\ call_state[c] = "finally"
    /\ CallFinished(c)
    /\ shared_tmp' = cleanup_parquet_files(shared_tmp)
    /\ call_state' = [call_state EXCEPT ![c] = "done"]
    /\ UNCHANGED <<call_chunks, call_task, call_k, call_read>>
    /\ UNCHANGED nonpvars

NextCalls ==
    \/ \E c \in JoinCalls : ConcurrentJoin(c)
    \/ \E c \in JoinCalls : \E i \in CallIndexes(c) : PerformStart(c, i)
    \/ \E c \in JoinCalls : \E i \in CallIndexes(c) : PerformWrite(c, i)
    \/ \E c \in JoinCalls : \E i \in CallIndexes(c) : PerformRaise(c, i)
    \/ \E c \in JoinCalls : CollectAll(c)
    \/ \E c \in JoinCalls : CombineNext(c)
    \/ \E c \in JoinCalls : CallFinally(c)

SpecCalls == InitCalls /\ [][NextCalls]_vars

\* ------------------------------------------------------------ footprint claims
Saved == fpc = "saved"

Treatments == Range(dissolved_cur_y)

\* C1: any two distinct footprint cells saved for the year have no area in common.
C1_NonOverlap ==
    Saved => \A i \in DOMAIN footprint, j \in DOMAIN footprint :
                 i # j => footprint[i].geometry \cap footprint[j].geometry = {}

\* C2: the union of the footprint cells saved for the year equals the union of the
\* year's dissolved treatments.
C2_CoveragePreserved ==
    Saved => UnionAll(footprint) = UnionAll(dissolved_cur_y)

\* C3: every saved cell carries the identifier of a dissolved treatment that covers
\* it and has the greatest quantity among the dissolved treatments covering it.
C3_MaxQuantityAttribution ==
    Saved => \A k \in DOMAIN footprint :
                 LET covering == {t \in Treatments :
                                     footprint[k].geometry \subseteq t.geometry}
                 IN \E t \in covering :
                        /\ t.TRMTID_USER = footprint[k].TRMTID_USER
                        /\ \A u \in covering :
                               u.ACTIVITY_QUANTITY <= t.ACTIVITY_QUANTITY

\* The year's input is the containment scenario: three treatments, two of 5 acres
\* and one of 12 acres that contains both, each overlapping the others.
ContainmentScenario(big) ==
    /\ Len(dissolved_cur_y) = 3
    /\ big \in Treatments /\ big.ACTIVITY_QUANTITY = 12
    /\ \A t \in Treatments \ {big} :
           t.ACTIVITY_QUANTITY = 5 /\ t.geometry \subseteq big.geometry
    /\ \A t \in Treatments, u \in Treatments : t.geometry \cap u.geometry # {}

\* C4: in the containment scenario the year's output is exactly one cell, the
\* 12-acre polygon with the 12-acre treatment; and a treatment contained in a
\* treatment of strictly larger quantity has no cell in the output.
C4_Containment ==
    Saved =>
        /\ \A big \in Treatments :
               ContainmentScenario(big) =>
                   /\ Len(footprint) = 1
                   /\ FootprintCells(footprint) =
                          {[TRMTID_USER |-> big.TRMTID_USER, geometry |-> big.geometry]}
        /\ \A t \in Treatments, b \in Treatments :
               (/\ t.TRMTID_USER # b.TRMTID_USER
                /\ t.geometry \subseteq b.geometry
                /\ t.ACTIVITY_QUANTITY < b.ACTIVITY_QUANTITY)
               => \A k \in DOMAIN footprint : footprint[k].TRMTID_USER # t.TRMTID_USER

\* C10: a second run of the planar-subdivision resolver on the same year input
\* saves the same cells with the same treatment on each as the first run.
C10_Idempotent ==
    (strategy = "p2" /\ Saved /\ run = 2) => FootprintCells(footprint) = first_footprint

\* The second run has saved, and some face holds the anchor points of two
\* treatments that report the same quantity.
C10_Witness ==
    /\ strategy = "p2" /\ Saved /\ run = 2
    /\ enrich_null = {}
    /\ \E f \in DOMAIN spaghetti, a \in DOMAIN meatball, b \in DOMAIN meatball :
           /\ a # b
           /\ PointIntersects(meatball[a].geometry, spaghetti[f])
           /\ PointIntersects(meatball[b].geometry, spaghetti[f])
           /\ meatball[a].ACTIVITY_QUANTITY = meatball[b].ACTIVITY_QUANTITY

\* ------------------------------------------------------ concurrent_join claims
JoinReturned == jpc = "returned"

Failed(i) == task[i] = "raised" \/ first_outcome[i] = "timeout"

RowsOf(result) == IF result = None THEN {} ELSE Range(result[1])

\* C5: when the task of exactly one chunk raises or exceeds its timeout and the
\* tasks of all other chunks succeed, concurrent_join returns a merged result
\* that holds the joined rows of every other chunk.
C5_ChunkFailureResilience ==
    (/\ JoinReturned
     /\ Len(in_polygons_chunks) >= 2
     /\ Cardinality({i \in Chunks : Failed(i)}) = 1)
    => /\ returned # None
       /\ \A i \in Chunks : ~Failed(i) =>
              Range(JoinedRows(in_polygons_chunks[i])) \subseteq RowsOf(returned)

C7_AtMostOnceNoWait ==
    \A i \in Chunks :
        /\ i \in DOMAIN submits => submits[i] = 1
        /\ (i \in DOMAIN first_outcome /\ first_outcome[i] \in {"timeout", "error"}) =>
               /\ result_calls[i] <= 1
               /\ (JoinReturned =>
                       Range(JoinedRows(in_polygons_chunks[i])) \cap RowsOf(returned) = {})

\* C8: every input row lies in exactly one chunk, the chunks being consecutive
\* slices of ChunkSize rows, and when every chunk task has succeeded the returned
\* collection is the concatenation of the joined rows of all chunks.
C8_MergeComplete ==
    /\ jpc # "split" =>
           /\ FlatConcat(in_polygons_chunks) = in_polygons
           /\ \A c \in Chunks :
                  Len(in_polygons_chunks[c]) =
                      IF c < Len(in_polygons_chunks) THEN ChunkSize
                      ELSE Len(in_polygons) - (c - 1) * ChunkSize
    /\ (/\ JoinReturned
        /\ Len(in_polygons_chunks) >= 1
        /\ ~exc
        /\ \A i \in Chunks : task[i] = "done")
       => returned = <<FlatConcat([c \in Chunks |-> JoinedRows(in_polygons_chunks[c])])>>

\* ---------------------------------------------------- remove_duplicates claim
Rotate(s, i) == [k \in DOMAIN s |-> s[((k - 1 + i) % Len(s)) + 1]]

\* Two rings with the same vertices, up to the start vertex and the direction.
SameGeometry(r, s) ==
    LET a == SubSeq(r, 1, Len(r) - 1)
        b == SubSeq(s, 1, Len(s) - 1)
    IN /\ Len(a) = Len(b)
       /\ \E i \in 0..(Len(a) - 1) : Rotate(a, i) = b \/ Rotate(Reverse(a), i) = b

\* C9: remove_duplicates returns, in their input order, exactly the features
\* whose geometry is not the same as an earlier feature's up to vertex order and
\* start vertex.
C9_DuplicateRemoval ==
    dpc = "returned" =>
        unique_gdf = Mask(gdf_in, [k \in DOMAIN gdf_in |->
                         ~ \E j \in 1..(k - 1) : SameGeometry(gdf_in[j], gdf_in[k])])

C9_Witness ==
    /\ dpc = "returned"
    /\ Len(gdf_in) = 3 /\ Len(unique_gdf) = 2
    /\ gdf_in[3] # gdf_in[1]
    /\ gdf_in[3] = closeRing(Rotate(SubSeq(gdf_in[1], 1, 3), 1))
    /\ Range(gdf_in[2]) = {<<c[1] + 1, c[2]>> : c \in Range(gdf_in[1])}

HasEmptyGeometry(gdf) ==
    \E k \in DOMAIN gdf : gdf[k].geometry \in {"null", "empty"}

\* The six checked collections, in the order of the checks.
CheckedCollections ==
    << <<"check_points", enriched_points>>,
       <<"check_lines", enriched_lines>>,
       <<"check_polygons", enriched_polygons>>,
       <<"check_buffer_pts", update_pt(enriched_points)>>,
       <<"check_buffer_lines", update_ln(enriched_lines)>>,
       <<"check_processed_polys", update_poly(enriched_polygons)>> >>

\* C13: a run of get_footprint_report ends halted, at the first check whose
\* collection holds a null or empty geometry and with no footprint generated, when
\* one of the six collections holds such a record; otherwise it ends with the
\* footprint generation called.
C13_FatalDataContract ==
    /\ generated => rpc = "generated"
    /\ rpc \in {"halted", "generated"} =>
           LET bad == {c \in DOMAIN CheckedCollections :
                           HasEmptyGeometry(CheckedCollections[c][2])}
           IN IF bad = {}
              THEN rpc = "generated" /\ generated
              ELSE /\ rpc = "halted" /\ ~generated
                   /\ \E c \in bad : /\ halted_at = CheckedCollections[c][1]
                                     /\ \A d \in bad : c <= d

C13_Witness ==
    /\ rpc = "halted"
    /\ halted_at = "check_buffer_lines"
    /\ Len(enriched_points) = 1

\* ------------------------------------------------------ quantity buffering claim
Distance(a, b) == IF a >= b THEN a - b ELSE b - a

\* C14: the area of the buffered geometry of a point or line record of quantity q
\* acres is q acres, within one percent.
C14_BufferRoundTrip ==
    bpc = "buffered" =>
        Distance(buffer_area, ACTIVITY_QUANTITY * SqCmPerAcre)
            <= (ACTIVITY_QUANTITY * SqCmPerAcre) \div 100

\* ------------------------------------------------------ state-highway claim
\* The output rows of a year that stem from a CALSTA record: their geometry lies in
\* the geometry of a CALSTA record of that year.
StemsFromCalsta(row) ==
    \E k \in DOMAIN input_gdf :
        /\ input_gdf[k].AGENCY = "CALSTA"
        /\ input_gdf[k].Year = row.Year_txt
        /\ row.geometry \subseteq input_gdf[k].geometry

\* C15: every row of the returned footprint that stems from a CALSTA record has
\* PRIMARY_OWNERSHIP_GROUP = STATE.
C15_StateHighwayOverride ==
    gpc = "returned" =>
        \A k \in DOMAIN footprint_out :
            StemsFromCalsta(footprint_out[k]) =>
                /\ "PRIMARY_OWNERSHIP_GROUP" \in DOMAIN footprint_out[k]
                /\ footprint_out[k].PRIMARY_OWNERSHIP_GROUP = "STATE"

\* ------------------------------------------------------ year independence claim
\* What the recursive decomposer saves for a year, from the year's dissolved
\* treatments alone.
NopYearOutput(layer) ==
    FlatConcat([i \in DOMAIN layer |->
        LET nbrs == SelectSeq([k \in DOMAIN layer |-> k],
                              LAMBDA k : k # i /\ Intersects(layer[i].geometry, layer[k].geometry))
        IN IF nbrs = <<>> THEN <<layer[i]>>
           ELSE LET nop_cur == get_NOP_recur(layer[i].geometry,
                                             [k \in DOMAIN nbrs |-> layer[nbrs[k]].geometry])
                    unique == Mask(nop_cur, [k \in DOMAIN nop_cur |-> ~ Duplicated(nop_cur)[k]])
                IN [k \in DOMAIN unique |-> CellOf(layer[i], unique[k])]])

\* C16: when the run of the year loop has ended, the footprint saved for a year
\* that has records is what the year's records alone give, whatever the records
\* of the other years.
C16_YearIndependence ==
    ypc \in {"done", "error"} =>
        \A yy \in Years :
            year_layers[yy] # <<>> =>
                saved_footprints[yy] = <<NopYearOutput(year_layers[yy])>>

\* -------------------------------------------------------------- cache claims
\* C17: a lookup of a cache entry never ends the run: every path that has been
\* looked up, corrupt on disk or not, has its data held by the run.
C17_CacheErrorsAreMisses ==
    /\ cpc # "error"
    /\ \A k \in DOMAIN LookupOrder :
           k <= Len(LookupOrder) - Len(lookups) => LookupOrder[k] \in loaded

\* The two collections hold the same rows and the same columns.
SameContent == Range(gdf_a.rows) = Range(gdf_b.rows)

\* The two collections have the same labels in the same stored order, and
\* differ in one attribute value or one geometry of one row.
DiffersInOneValue ==
    /\ Len(gdf_a.rows) = Len(gdf_b.rows)
    /\ gdf_a.columns = gdf_b.columns
    /\ \A i \in DOMAIN gdf_a.rows : gdf_a.rows[i].label = gdf_b.rows[i].label
    /\ \E i \in DOMAIN gdf_a.rows :
           /\ \/ /\ gdf_a.rows[i].AGENCY # gdf_b.rows[i].AGENCY
                 /\ gdf_a.rows[i].geometry = gdf_b.rows[i].geometry
              \/ /\ gdf_a.rows[i].AGENCY = gdf_b.rows[i].AGENCY
                 /\ gdf_a.rows[i].geometry # gdf_b.rows[i].geometry
           /\ \A k \in DOMAIN gdf_a.rows : k # i => gdf_a.rows[k] = gdf_b.rows[k]

\* C18: the key is the same for two collections holding the same rows whatever
\* the stored order of rows and columns, and differs for two collections of the
\* same size that differ in a single attribute value or geometry.
C18_KeyIsFunctionOfContent ==
    hpc = "hashed" =>
        /\ SameContent => hash_a = hash_b
        /\ DiffersInOneValue => hash_a # hash_b

\* ------------------------------------------------------- counts_to_mas claims
\* C19: after standardize_domains and counts_to_mas, a record that counts has
\* a populated ADMINISTERING_ORG and a populated AGENCY.
C19_CountingRecordsHaveOwner ==
    (mpc = "counted" /\ activity.COUNTS_TO_MAS = "YES") =>
        (activity.ADMINISTERING_ORG # NA /\ activity.AGENCY # NA)

\* C20: after counts_to_mas, a record that counts and is ACTIVE has AGENCY CNRA.
C20_OnlyCnraCountsActive ==
    (mpc = "counted" /\ activity.COUNTS_TO_MAS = "YES" /\ activity.ACTIVITY_STATUS = "ACTIVE") =>
        activity.AGENCY = "CNRA"

\* ----------------------------------------------------------- category claims
\* C21: after categorize_activity and standardize_domains the record has a
\* category, and the category NOT_DEFINED only with the description TBD or
\* NOT_DEFINED.
C21_NotDefinedOnlyForUndefined ==
    kpc = "standardized" =>
        /\ crosswalk_row.ACTIVITY_CAT # NA
        /\ crosswalk_row.ACTIVITY_CAT = "NOT_DEFINED" =>
               crosswalk_row.ACTIVITY_DESCRIPTION \in {"TBD", "NOT_DEFINED"}

\* ------------------------------------------------------ planar path claims
\* The claims of the year before the max-quantity selection: the rows of the
\* join of the faces to the anchor points, after dropna.
FaceClaims == Dropna(SjoinLeft(spaghetti, meatball), meatball, enrich_null)

\* C22: every minimal face is claimed by exactly the dissolved treatments whose
\* polygon contains the face, once each, so that a face is dropped only if no
\* treatment covers it.
C22_FaceClaimsByContainment ==
    (strategy = "p2" /\ fpc = "saved") =>
        \A f \in DOMAIN spaghetti :
            LET claiming == SelectSeq(FaceClaims, LAMBDA r : r.face = f)
                covering == {k \in DOMAIN original : spaghetti[f] \subseteq original[k].geometry}
            IN /\ {meatball[claiming[i].right].TRMTID_USER : i \in DOMAIN claiming}
                      = {original[k].TRMTID_USER : k \in covering}
               /\ Len(claiming) = Cardinality(covering)

\* ----------------------------------------------------------- dissolve claims
\* The features that the variant dissolves together: footprint.py dissolves the
\* buffered lines apart from the polygons and points.
DissolvedTogether ==
    IF variant = "p2" THEN SelectSeq(year_features, LAMBDA row : row.kind # "line")
    ELSE year_features

\* C23: in every variant, for every treatment identifier of the year there is
\* one dissolved treatment, its geometry the union of the year's features with
\* that identifier and its quantity the maximum among them.
C23_DissolveKeepsMaximum ==
    spc = "dissolved" =>
        \A id \in {DissolvedTogether[k].TRMTID_USER : k \in DOMAIN DissolvedTogether} :
            LET members == {k \in DOMAIN DissolvedTogether : DissolvedTogether[k].TRMTID_USER = id}
                rows == {n \in DOMAIN dissolved : dissolved[n].TRMTID_USER = id}
            IN /\ Cardinality(rows) = 1
               /\ \A n \in rows :
                      /\ dissolved[n].geometry =
                             UNION {DissolvedTogether[k].geometry : k \in members}
                      /\ dissolved[n].ACTIVITY_QUANTITY =
                             MaxOf({DissolvedTogether[k].ACTIVITY_QUANTITY : k \in members})

\* --------------------------------------------------------- normalizer claims
\* C24: every feature the normalizer returns counts, has the unit acres, a
\* quantity above zero and, for a line, a positive length, and carries an area
\* geometry.
C24_OnlyReconcilableRecords ==
    zpc = "normalized" =>
        \A k \in DOMAIN norm_output :
            /\ norm_output[k].COUNTS_TO_MAS = "YES"
            /\ Upper(norm_output[k].ACTIVITY_UOM) = "AC"
            /\ norm_output[k].ACTIVITY_QUANTITY # None
            /\ norm_output[k].ACTIVITY_QUANTITY[1] > 0
            /\ norm_kind = "line" => norm_output[k].length > 0
            /\ norm_output[k].geometry = "polygon"

\* ------------------------------------------------------- neighbor list claims
\* C25: the list of a feature holds exactly the other features whose geometry
\* intersects its geometry, each once, and so the neighbor relation is symmetric.
C25_IntersectingNeighbors ==
    ipc = "listed" =>
        /\ \A f \in DOMAIN inter_gdf :
               /\ Range(interaction_list[f]) =
                      {g \in DOMAIN inter_gdf \ {f} :
                          Intersects(inter_gdf[f].geometry, inter_gdf[g].geometry)}
               /\ Cardinality(Range(interaction_list[f])) = Len(interaction_list[f])
        /\ \A f, g \in DOMAIN inter_gdf :
               g \in Range(interaction_list[f]) <=> f \in Range(interaction_list[g])

\* A feature whose bounding box meets the box of a feature it does not
\* intersect, next to one it does intersect.
C25_Witness ==
    /\ ipc = "listed"
    /\ inter_gdf = <<[geometry |-> {1, 5}], [geometry |-> {3}], [geometry |-> {4, 5}]>>
    /\ interaction_list = <<<<3>>, <<3>>, <<1, 2>>>>

\* ----------------------------------------------------------- validity claims
\* C26: the run is never ended by an invalid geometry, and every geometry that
\* is decomposed is valid.
C26_ValidBeforeDecomposition ==
    /\ vpc # "error"
    /\ vpc = "decomposed" => \A k \in DOMAIN handed : handed[k] = "valid"

\* ------------------------------------------------------- chunk cache claims
\* C27: summarize_within runs for a chunk only at its turn, at most once, and
\* not at all when the chunk's entry was found; the result used for a chunk is
\* the one stored under its key; a second run over unchanged input calls
\* summarize_within for no chunk.
C27_CacheBeforeAndAfter ==
    epc \in {"chunks", "done"} =>
        /\ \A i \in DOMAIN enrich_chunks :
               /\ summarized[i] <= 1
               /\ i > Len(enriched_list) => summarized[i] = 0
               /\ i <= Len(enriched_list) =>
                      enriched_list[i] = chunk_cache[ChunkHash(enrich_chunks[i])]
        /\ (run_no = 2 /\ first_run = <<enrich_chunks, ref_source>>) =>
               \A i \in DOMAIN enrich_chunks : summarized[i] = 0

\* The second run over the unchanged input has used the stored result of both chunks.
C27_Witness ==
    /\ epc = "done" /\ run_no = 2 /\ first_run = <<enrich_chunks, ref_source>>
    /\ enrich_chunks = <<"a", "b">>
    /\ Len(enriched_list) = 2
    /\ summarized = <<0, 0>>

\* C30: every enriched chunk of a run is the enrichment of that chunk against
\* the reference layer as it is at the source in that run.
C30_NoStaleEnrichment ==
    epc \in {"chunks", "done"} =>
        \A i \in DOMAIN enriched_list : enriched_list[i].version = ref_source

\* ------------------------------------------------------------ recursion claims

\* Every live call of get_NOP_recur at nesting level k was handed fewer than
\* n + 3 - k neighbor rows, n being the number of neighbors get_NOP_mp started
\* with, and no more than n + 1 calls are nested.
DepthBounded ==
    /\ Len(call_stack) <= Len(recur_neighbors) + 1
    /\ max_depth <= Len(recur_neighbors) + 1
    /\ \A k \in DOMAIN call_stack :
          Len(call_stack[k].gdf2) < Len(recur_neighbors) + 3 - k

\* C28: decomposition terminates. For every target and every neighbor list,
\* also when several neighbors contain the target or overlap inside it, the
\* neighbor rows handed down stay below a bound that falls by one per level,
\* the nesting of get_NOP_recur never exceeds the number of neighbors plus one,
\* and get_NOP_mp returns.
C28_DecompositionTerminates == []DepthBounded /\ <>(tpc = "returned")

\* Two neighbors overlapping each other inside the target were decomposed and
\* the nesting reached the number of neighbors plus one.
C28_Witness ==
    /\ tpc = "returned"
    /\ recur_target = {1, 2, 3}
    /\ recur_neighbors = <<{1, 2}, {2, 3}>>
    /\ max_depth = 3

\* ------------------------------------------------------------ concurrent calls claims

\* The chunk tasks that have started and not yet finished.
LiveTasks ==
    {t \in JoinCalls \X (0..1) :
        /\ t[2] \in CallIndexes(t[1])
        /\ call_task[t[1]][t[2]] = "running"}

DistinctTempPaths ==
    \A t1 \in LiveTasks : \A t2 \in LiveTasks :
        t1 # t2 => OutputFile(t1[2]) # OutputFile(t2[2])

\* The partial files of call c that c, still running, has yet to read.
Unread(c) ==
    {f \in shared_tmp :
        /\ f[2] = c
        /\ \/ call_state[c] = "collecting"
           \/ call_state[c] = "combining" /\ call_k[c] <= f[1]}

CleanupSparesOthers ==
    \A c \in JoinCalls :
        (call_state[c] = "finally" /\ call_state'[c] = "done") =>
            \A o \in JoinCalls \ {c} : Unread(o) \subseteq shared_tmp'

\* C29: no temp-file interference between joins. Two chunk tasks live at the
\* same time write to distinct paths, also across two running calls of
\* concurrent_join, and the cleanup of one call deletes no partial file that
\* another running call has yet to read.
C29_NoTempFileInterference == []DistinctTempPaths /\ [][CleanupSparesOthers]_vars

====
